---- MODULE Spec2Model ----
(***************************************************************************)
(* A model of the french-ai-tutor-api lesson pipeline:                     *)
(*   - the lessons table, written by create_lesson (app/main.py), by the   *)
(*     Celery task process_lesson (app/tasks.py) and by api_ingest         *)
(*     (app/ingest_api.py), and read by get_lesson (app/main.py);          *)
(*   - the broker queue between create_lesson and process_lesson;          *)
(*   - the ABBYY OCR call ocr_file_to_text (app/ocr_abbyy.py).             *)
(* Every call that leaves the process (store, broker, HTTP) is one step    *)
(* that either takes effect and returns, or raises without effect.         *)
(***************************************************************************)
EXTENDS Integers, Sequences, FiniteSets, TLC

\* ------------------------------------------------------------------ bounds

\* Number of lesson rows create_lesson may insert.
MaxJobs == 1
\* Number of times the broker may deliver an already delivered message again.
MaxRedeliver == 1

Jobs == 1..MaxJobs
\* One slot per execution of process_lesson.
MaxExec == MaxJobs + MaxRedeliver
Slots == 1..MaxExec

\* ------------------------------------------------------------- the values

\* lessons.lesson_data: SQL NULL, or the lesson_json of process_lesson.
\* src is where the JSON came from; image says whether its ui_steps carry an
\* image step with the storage URL.
NullLesson == [src |-> "null", image |-> FALSE]

\* The row a lesson id has before create_lesson inserted it.
NoRow ==
    [exists |-> FALSE, status |-> "null", ocr_text |-> "null",
     lesson_data |-> NullLesson, completed_at |-> FALSE, error |-> "null"]

\* A row inserted as "queued".
InsertedStatusQueued == "queued"
\* The status create_lesson inserts.
InsertedStatus == "processing"

\* ins of create_lesson; the columns it does not name are NULL.
NewRow ==
    [exists |-> TRUE, status |-> InsertedStatus, ocr_text |-> "null",
     lesson_data |-> NullLesson, completed_at |-> FALSE, error |-> "null"]

\* A slot no execution has used yet.
IdleExec ==
    [job |-> 0, pc |-> "idle", text |-> "", lesson |-> NullLesson,
     exc |-> "none", resp |-> "none", empty |-> FALSE, wrote |-> "none",
     lost |-> FALSE, nDl |-> 0, nGen |-> 0, nErr |-> 0]

\* What the generation service may answer (content_str), by how it parses.
RespKinds == {"strict_obj", "strict_nonobj", "loose_obj", "loose_bad", "no_brace"}

VARIABLES
    cfg,         \* the deployment: which module globals are set
    rows,        \* the lessons table, by id
    nextId,      \* the id the store gives the next inserted row
    file,        \* by id: the extension of file_path, "pdf" or "img"
    req,         \* the create_lesson request in flight; code: the status of the
                 \* last request that ended before the insert
    resp,        \* by id: the response create_lesson gave for the row
    enq,         \* by id: number of process_lesson.delay calls that succeeded
    queue,       \* by id: messages in the broker
    delivered,   \* by id: number of deliveries so far
    redelivered, \* number of redeliveries so far
    ingested,    \* by id: api_ingest has updated the row
    exec,        \* by slot: one execution of process_lesson
    ocr,         \* one call of ocr_file_to_text: its inputs and its outcome
    poll,        \* one call of _poll_task: its clock, its requests, its outcome
    pdf,         \* one call of extract_text_from_pdf_bytes
    chunker,     \* one call of chunk_text
    norm,        \* one call of _normalize_to_strict_schema
    jsonp,       \* one generation response, parsed at one of the three sites
    vectors,     \* one call of ingest_pdf_to_vectors
    ingestReq,   \* one request to api_ingest
    built,       \* one call of build_mimi_lesson
    chat,        \* one call of _chat_json_strict
    forced,      \* one call of _force_image_urls, and a second on its result
    chunkStore   \* the lesson_chunks table and one upsert_lesson_chunks call

\* The library calls, which run apart from the pipeline.
more == <<jsonp, vectors, ingestReq, built, chat, forced, chunkStore>>
calls == <<ocr, poll, pdf, chunker, norm, more>>
pipeline ==
    <<cfg, rows, nextId, file, req, resp, enq, queue, delivered, redelivered,
      ingested, exec>>

vars == <<calls, pipeline>>

\* ------------------------------------------------------------ the store

\* supabase.table("lessons").update(fields).eq("id", id).execute(): one
\* statement that sets the named columns of the rows with that id.
update(tbl, id, fields) ==
    IF id \in DOMAIN tbl /\ tbl[id].exists
    THEN [tbl EXCEPT ![id] =
            [k \in DOMAIN tbl[id] |->
                IF k \in DOMAIN fields THEN fields[k] ELSE tbl[id][k]]]
    ELSE tbl

\* update() of process_lesson: nothing when tasks.supabase is None.
task_update(tbl, id, fields) ==
    IF cfg.workerStore THEN update(tbl, id, fields) ELSE tbl

\* get_lesson: the response for a lesson id, from the row as it is now.
get_lesson(id) ==
    IF ~cfg.webStore THEN [code |-> 500, body |-> [error |-> "Supabase not configured"]]
    ELSE IF ~(id \in Jobs /\ rows[id].exists)
    THEN [code |-> 404, body |-> [error |-> "not found"]]
    ELSE [code |-> 200,
          body |-> [id |-> id,
                    status |-> rows[id].status,
                    lesson |-> [ocr_text |-> rows[id].ocr_text,
                                lesson_data |-> rows[id].lesson_data]]]

\* ----------------------------------------------------------------- Init

\* No library call under way.
NoOcr == [pc |-> "idle"]
MoreIdle ==
    /\ jsonp = NoOcr /\ vectors = NoOcr /\ ingestReq = NoOcr /\ built = NoOcr
    /\ chat = NoOcr /\ forced = NoOcr /\ chunkStore = NoOcr
CallsIdle ==
    ocr = NoOcr /\ poll = NoOcr /\ pdf = NoOcr /\ chunker = NoOcr /\ norm = NoOcr

\* The pipeline before any request.
PipelineInit ==
    /\ rows = [j \in Jobs |-> NoRow]
    /\ nextId = 1
    /\ file = [j \in Jobs |-> "none"]
    /\ req = [pc |-> "idle", id |-> 0, code |-> 0]
    /\ resp = [j \in Jobs |-> 0]
    /\ enq = [j \in Jobs |-> 0]
    /\ queue = [j \in Jobs |-> 0]
    /\ delivered = [j \in Jobs |-> 0]
    /\ redelivered = 0
    /\ ingested = [j \in Jobs |-> FALSE]
    /\ exec = [s \in Slots |-> IdleExec]

Init ==
    /\ cfg \in [webStore : BOOLEAN, workerStore : BOOLEAN,
                hasKey : BOOLEAN, workerImported : BOOLEAN]
    /\ PipelineInit
    /\ ocr = NoOcr /\ poll = NoOcr /\ pdf = NoOcr /\ chunker = NoOcr /\ norm = NoOcr
    /\ MoreIdle

\* ------------------------------------------------------- create_lesson

\* create_lesson up to the insert: 500 without a store, 400 without child_id
\* or file_path, 500 when the insert returns no row.
create_lesson_insert(valid, ext, inserted) ==
    /\ req.pc = "idle"
    /\ nextId <= MaxJobs
    /\ UNCHANGED <<calls, cfg, resp, enq, queue, delivered, redelivered, ingested, exec>>
    /\ IF ~cfg.webStore
       THEN /\ req' = [pc |-> "idle", id |-> 0, code |-> 500]
            /\ UNCHANGED <<rows, nextId, file>>
       ELSE IF ~valid
       THEN /\ req' = [pc |-> "idle", id |-> 0, code |-> 400]
            /\ UNCHANGED <<rows, nextId, file>>
       ELSE IF ~inserted
       THEN /\ req' = [pc |-> "idle", id |-> 0, code |-> 500]
            /\ UNCHANGED <<rows, nextId, file>>
       ELSE /\ rows' = [rows EXCEPT ![nextId] = NewRow]
            /\ file' = [file EXCEPT ![nextId] = ext]
            /\ req' = [pc |-> "enqueue", id |-> nextId, code |-> 0]
            /\ nextId' = nextId + 1

\* A delay() that raises after the broker took the message.
FailedDelayQueueSent(q, id) == [q EXCEPT ![id] = @ + 1]
\* What a failed process_lesson.delay leaves in the broker: nothing.
FailedDelayQueue(q, id) == q

\* create_lesson from the enqueue on: 202 with a warning when the task was not
\* imported, 202 after delay(), and the failure handler's turn when delay() raises.
create_lesson_enqueue(sent) ==
    /\ req.pc = "enqueue"
    /\ UNCHANGED <<calls, cfg, rows, nextId, file, delivered, redelivered, ingested, exec>>
    /\ IF ~cfg.workerImported
       THEN /\ req' = [pc |-> "idle", id |-> 0, code |-> 0]
            /\ resp' = [resp EXCEPT ![req.id] = 202]
            /\ UNCHANGED <<enq, queue>>
       ELSE IF sent
       THEN /\ queue' = [queue EXCEPT ![req.id] = @ + 1]
            /\ enq' = [enq EXCEPT ![req.id] = @ + 1]
            /\ req' = [pc |-> "idle", id |-> 0, code |-> 0]
            /\ resp' = [resp EXCEPT ![req.id] = 202]
       ELSE /\ queue' = FailedDelayQueue(queue, req.id)
            /\ req' = [req EXCEPT !.pc = "mark_error"]
            /\ UNCHANGED <<enq, resp>>

\* The failure handler of create_lesson: status "error", then 500. When the
\* update itself raises the request still ends 500.
create_lesson_mark_error(stored) ==
    /\ req.pc = "mark_error"
    /\ UNCHANGED <<calls, cfg, nextId, file, enq, queue, delivered, redelivered, ingested, exec>>
    /\ rows' = IF stored THEN update(rows, req.id, [status |-> "error"]) ELSE rows
    /\ req' = [pc |-> "idle", id |-> 0, code |-> 0]
    /\ resp' = [resp EXCEPT ![req.id] = 500]

\* ------------------------------------------------------------ the broker

FreeSlot == CHOOSE s \in Slots : exec[s].pc = "idle" /\ \A t \in 1..(s-1) : exec[t].pc # "idle"

\* The broker hands a message to a worker, which starts process_lesson.
Deliver(j) ==
    /\ queue[j] > 0
    /\ \E s \in Slots : exec[s].pc = "idle"
    /\ queue' = [queue EXCEPT ![j] = @ - 1]
    /\ delivered' = [delivered EXCEPT ![j] = @ + 1]
    /\ exec' = [exec EXCEPT ![FreeSlot] = [IdleExec EXCEPT !.job = j, !.pc = "download"]]
    /\ UNCHANGED <<calls, cfg, rows, nextId, file, req, resp, enq, redelivered, ingested>>

\* At-least-once delivery: the broker queues a delivered message again.
Redeliver(j) ==
    /\ delivered[j] >= 1
    /\ queue[j] = 0
    /\ redelivered < MaxRedeliver
    /\ queue' = [queue EXCEPT ![j] = 1]
    /\ redelivered' = redelivered + 1
    /\ UNCHANGED <<calls, cfg, rows, nextId, file, req, resp, enq, delivered, ingested, exec>>

\* ------------------------------------------------------- process_lesson

\* Counters of an execution stop at CounterCap.
CounterCap == 2
Inc(n) == IF n < CounterCap THEN n + 1 ELSE n

\* An extraction that raises when it recovers no text.
extract_fail_on_empty(ext, opened, raw, vision) ==
    LET text == IF ext = "pdf" THEN raw
                ELSE IF cfg.hasKey /\ vision # "raise" THEN vision ELSE ""
    IN [raised |-> (ext = "pdf" /\ ~opened) \/ text = "",
        empty |-> ~(ext = "pdf" /\ ~opened) /\ text = "",
        text |-> text]

\* Step 2 of process_lesson on the downloaded bytes. ext is the extension of
\* file_path; opened: fitz.open returned; raw: the text of the PDF's pages
\* ("" when none has any); vision: what the description call gave ("raise" when
\* it failed). An image without OPENAI_API_KEY is not described. Empty text
\* becomes a fixed placeholder sentence; only fitz.open raising escapes.
extract(ext, opened, raw, vision) ==
    LET text == IF ext = "pdf" THEN raw
                ELSE IF cfg.hasKey /\ vision # "raise" THEN vision ELSE ""
    IN [raised |-> ext = "pdf" /\ ~opened,
        empty |-> ~(ext = "pdf" /\ ~opened) /\ text = "",
        text |-> IF text # "" THEN text
                 ELSE IF ext = "pdf" THEN "pdf_placeholder" ELSE "img_placeholder"]

\* The fallback lesson_json of a response that cannot be parsed.
FallbackLesson == [src |-> "fallback", image |-> FALSE]
\* The lesson_json built without OPENAI_API_KEY.
DemoLesson == [src |-> "demo", image |-> FALSE]

\* A parse that raises on a response it cannot parse.
ParseLessonOrRaise(kind) ==
    CASE kind \in {"strict_obj", "loose_obj"} -> [src |-> "model", image |-> FALSE]
      [] kind = "strict_nonobj" -> [src |-> "nonobject", image |-> FALSE]
      [] OTHER -> [src |-> "raise", image |-> FALSE]

\* json.loads(content_str); when that raises, json.loads of the span the regex
\* \{.*\} matches; when there is no span or it does not parse, the fallback.
\* The first json.loads may return a value that is no object.
ParseLesson(kind) ==
    CASE kind = "strict_obj" -> [src |-> "model", image |-> FALSE]
      [] kind = "strict_nonobj" -> [src |-> "nonobject", image |-> FALSE]
      [] kind = "loose_obj" -> [src |-> "model", image |-> FALSE]
      [] kind = "loose_bad" -> FallbackLesson
      [] kind = "no_brace" -> FallbackLesson

\* How process_lesson took the answer: parsed to a lesson, replaced by the
\* fallback, or a JSON value that is no object.
Taken(kind) ==
    CASE kind \in {"strict_obj", "loose_obj"} -> "parsed"
      [] kind = "strict_nonobj" -> "nonobject"
      [] OTHER -> "unparsable"

\* _force_image_urls on an object: afterwards some ui step shows the URL.
force_image_urls(lesson) == [lesson EXCEPT !.image = TRUE]

\* A final update that leaves the status to a later statement.
SaveFieldsNoStatus(lesson) == [lesson_data |-> lesson]
\* The fields of the update that ends a successful execution.
SaveFields(lesson) ==
    [lesson_data |-> lesson, status |-> "completed", completed_at |-> TRUE]

\* An except clause that puts the job back for another attempt.
ErrorFieldsProcessing == [status |-> "processing"]
\* An except clause that stores str(e).
ErrorFieldsWithMessage == [status |-> "error", error |-> "message"]
\* The fields of the update in the except clause.
ErrorFields == [status |-> "error"]

\* A failure that starts the task over.
FailurePcRetry == "download"
\* Where an exception inside the try block continues: the except clause.
FailurePc == "handler"

\* The execution in slot s raises e inside the try block.
Raise(s, e) == [exec EXCEPT ![s].exc = e, ![s].pc = FailurePc]

\* requests.get(url) and raise_for_status.
process_lesson_download(s, ok) ==
    /\ exec[s].pc = "download"
    /\ exec' = IF ok
               THEN [exec EXCEPT ![s].pc = "extract", ![s].nDl = Inc(@)]
               ELSE [Raise(s, "download") EXCEPT ![s].nDl = Inc(@)]
    /\ UNCHANGED <<calls, cfg, rows, nextId, file, req, resp, enq, queue, delivered,
                   redelivered, ingested>>

\* Step 2: text from the PDF, or the description of the image.
process_lesson_extract(s, opened, raw, vision) ==
    /\ exec[s].pc = "extract"
    /\ LET x == extract(file[exec[s].job], opened, raw, vision)
       IN exec' = IF x.raised
                  THEN [Raise(s, "format") EXCEPT ![s].empty = x.empty]
                  ELSE [exec EXCEPT ![s].pc = "save_ocr", ![s].text = x.text,
                                    ![s].empty = x.empty]
    /\ UNCHANGED <<calls, cfg, rows, nextId, file, req, resp, enq, queue, delivered,
                   redelivered, ingested>>

\* update({"ocr_text": text[:10000]}).
process_lesson_save_ocr(s, stored) ==
    /\ exec[s].pc = "save_ocr"
    /\ stored \/ cfg.workerStore
    /\ IF stored
       THEN /\ rows' = task_update(rows, exec[s].job, [ocr_text |-> exec[s].text])
            /\ exec' = [exec EXCEPT ![s].pc = "generate"]
       ELSE /\ rows' = rows
            /\ exec' = Raise(s, "store")
    /\ UNCHANGED <<calls, cfg, nextId, file, req, resp, enq, queue, delivered,
                   redelivered, ingested>>

\* Step 3: the generation request, the parse and _force_image_urls; the demo
\* lesson without OPENAI_API_KEY. answer is "raise" when the request fails.
process_lesson_generate(s, answer) ==
    /\ exec[s].pc = "generate"
    /\ IF ~cfg.hasKey
       THEN exec' = [exec EXCEPT ![s].pc = "save", ![s].lesson = DemoLesson,
                                 ![s].resp = "demo"]
       ELSE IF answer = "raise"
       THEN exec' = [Raise(s, "generation") EXCEPT ![s].nGen = Inc(@), ![s].resp = "raise"]
       ELSE LET parsed == ParseLesson(answer)
            IN exec' = IF parsed.src \in {"model", "fallback"}
                       THEN [exec EXCEPT ![s].pc = "save", ![s].nGen = Inc(@),
                                         ![s].resp = Taken(answer),
                                         ![s].lesson = force_image_urls(parsed)]
                       ELSE [Raise(s, IF parsed.src = "nonobject" THEN "shape" ELSE "parse")
                                EXCEPT ![s].nGen = Inc(@), ![s].resp = Taken(answer)]
    /\ UNCHANGED <<calls, cfg, rows, nextId, file, req, resp, enq, queue, delivered,
                   redelivered, ingested>>

\* Step 4: one update sets lesson_data, status and completed_at.
process_lesson_save(s, stored) ==
    /\ exec[s].pc = "save"
    /\ stored \/ cfg.workerStore
    /\ IF stored
       THEN /\ rows' = task_update(rows, exec[s].job, SaveFields(exec[s].lesson))
            /\ exec' = [exec EXCEPT ![s].pc = "done",
                           ![s].wrote = IF cfg.workerStore /\ "status" \in DOMAIN SaveFields(exec[s].lesson)
                                        THEN SaveFields(exec[s].lesson).status ELSE @,
                           ![s].lost = ~cfg.workerStore]
       ELSE /\ rows' = rows
            /\ exec' = Raise(s, "store")
    /\ UNCHANGED <<calls, cfg, nextId, file, req, resp, enq, queue, delivered,
                   redelivered, ingested>>

\* The except clause: update({"status": "error"}); when that raises too, the
\* task ends with the exception and the row as it was.
process_lesson_except(s, stored) ==
    /\ exec[s].pc = "handler"
    /\ stored \/ cfg.workerStore
    /\ rows' = IF stored THEN task_update(rows, exec[s].job, ErrorFields) ELSE rows
    /\ exec' = [exec EXCEPT ![s].pc = "done", ![s].nErr = Inc(@),
                   ![s].wrote = IF stored /\ cfg.workerStore THEN ErrorFields.status ELSE @,
                   ![s].lost = ~(stored /\ cfg.workerStore)]
    /\ UNCHANGED <<calls, cfg, nextId, file, req, resp, enq, queue, delivered,
                   redelivered, ingested>>

\* ------------------------------------------------------------ api_ingest

\* api_ingest for lesson id j when ingest_pdf_to_vectors returned text: one
\* update sets ocr_text and status, "ingested" with text and "error" without.
api_ingest(j, text) ==
    /\ rows' = IF cfg.webStore
               THEN update(rows, j, [ocr_text |-> IF text # "" THEN text ELSE "null",
                                     status |-> IF text # "" THEN "ingested" ELSE "error"])
               ELSE rows
    /\ ingested' = [ingested EXCEPT ![j] = @ \/ (cfg.webStore /\ rows[j].exists)]
    /\ UNCHANGED <<calls, cfg, nextId, file, req, resp, enq, queue, delivered, redelivered, exec>>

\* ------------------------------------------------------------------ Next

Next ==
    \/ \E valid \in BOOLEAN, ext \in {"pdf", "img"}, inserted \in BOOLEAN :
          create_lesson_insert(valid, ext, inserted)
    \/ \E sent \in BOOLEAN : create_lesson_enqueue(sent)
    \/ \E stored \in BOOLEAN : create_lesson_mark_error(stored)
    \/ \E j \in Jobs : Deliver(j)
    \/ \E j \in Jobs : Redeliver(j)
    \/ \E s \in Slots, ok \in BOOLEAN : process_lesson_download(s, ok)
    \/ \E s \in Slots, opened \in BOOLEAN, raw \in {"doc", ""}, vision \in {"doc", "", "raise"} :
          process_lesson_extract(s, opened, raw, vision)
    \/ \E s \in Slots, stored \in BOOLEAN : process_lesson_save_ocr(s, stored)
    \/ \E s \in Slots, answer \in RespKinds \cup {"raise"} : process_lesson_generate(s, answer)
    \/ \E s \in Slots, stored \in BOOLEAN : process_lesson_save(s, stored)
    \/ \E s \in Slots, stored \in BOOLEAN : process_lesson_except(s, stored)
    \/ \E j \in Jobs, text \in {"doc", ""} : api_ingest(j, text)

Spec == Init /\ [][Next]_vars

\* The steps of the execution in slot s.
StepExec(s) ==
    \/ \E ok \in BOOLEAN : process_lesson_download(s, ok)
    \/ \E opened \in BOOLEAN, raw \in {"doc", ""}, vision \in {"doc", "", "raise"} :
          process_lesson_extract(s, opened, raw, vision)
    \/ \E stored \in BOOLEAN : process_lesson_save_ocr(s, stored)
    \/ \E answer \in RespKinds \cup {"raise"} : process_lesson_generate(s, answer)
    \/ \E stored \in BOOLEAN : process_lesson_save(s, stored)
    \/ \E stored \in BOOLEAN : process_lesson_except(s, stored)

\* The broker delivers every message it holds, a started execution takes its
\* next step (every call returns or raises), and a request is served to its end.
Fairness ==
    /\ \A j \in Jobs : WF_vars(Deliver(j))
    /\ \A s \in Slots : WF_vars(StepExec(s))
    /\ WF_vars(\E sent \in BOOLEAN : create_lesson_enqueue(sent))
    /\ WF_vars(\E stored \in BOOLEAN : create_lesson_mark_error(stored))

FairSpec == Init /\ [][Next]_vars /\ Fairness

\* ================================================================ claims

Terminal == {"completed", "error"}
Placeholders == {"pdf_placeholder", "img_placeholder"}
Finished(s) == exec[s].pc = "done"
\* The columns a poller sees.
Seen(r) == <<r.status, r.lesson_data, r.ocr_text>>

\* ---- C1
\* C1 as stated: once process_lesson has finished for a job, the persisted
\* status is completed or error (and so never again queued or processing).
\* Stated for an execution whose last status write was applied.
C1_FinishedIsTerminal ==
    \A s \in Slots :
        (Finished(s) /\ ~exec[s].lost) => rows[exec[s].job].status \in Terminal

\* C1 as amended: when process_lesson finishes and its last status write was
\* applied, the persisted status is then completed or error; and no step ever
\* sets a status to queued, nor back to processing once it has left it.
\* Afterwards api_ingest may set the status to ingested; a finish whose status
\* write was not applied leaves the status as it was.
C1_NeverBackToProcessing ==
    [][ /\ \A s \in Slots :
              (~Finished(s) /\ exec'[s].pc = "done" /\ ~exec'[s].lost)
                  => rows'[exec'[s].job].status \in Terminal
        /\ \A j \in Jobs :
              /\ rows'[j].status # "queued"
              /\ (rows[j].exists /\ rows[j].status # "processing")
                    => rows'[j].status # "processing" ]_vars

\* A finished execution wrote error, a second delivery has started since, and
\* the status is still error.
C1_Witness ==
    \E s \in Slots :
        /\ Finished(s) /\ exec[s].wrote = "error"
        /\ delivered[exec[s].job] = 2
        /\ rows[exec[s].job].status = "error"

\* ---- C2
\* C2 as stated: after create_lesson returned 202 for a row, and before any
\* delivery or api_ingest for it, get_lesson returns status queued.
C2_QueuedAfterCreate ==
    \A j \in Jobs :
        (resp[j] = 202 /\ delivered[j] = 0 /\ ~ingested[j])
            => (get_lesson(j).code = 200 /\ get_lesson(j).body.status = "queued")

\* C2 as amended: in that state get_lesson returns status processing, the
\* status create_lesson inserts.
C2_ProcessingAfterCreate ==
    \A j \in Jobs :
        (resp[j] = 202 /\ delivered[j] = 0 /\ ~ingested[j])
            => (get_lesson(j).code = 200 /\ get_lesson(j).body.status = "processing")

\* A row answered 202 whose message is still in the broker.
C2_Witness ==
    \E j \in Jobs :
        resp[j] = 202 /\ delivered[j] = 0 /\ ~ingested[j] /\ queue[j] = 1

\* ---- C3
\* C3 as stated: no step changes status, lesson_data or ocr_text of a row
\* that an execution of process_lesson has brought to completed or error.
C3_TerminalImmutable ==
    [][ \A j \in Jobs :
            (/\ rows[j].status \in Terminal
             /\ \E s \in Slots : exec[s].job = j /\ Finished(s)
                                 /\ exec[s].wrote = rows[j].status)
                => Seen(rows'[j]) = Seen(rows[j]) ]_vars

\* C3 as amended: a terminal row is never changed by create_lesson (a step of
\* the request); process_lesson changes one only in a redelivered execution or
\* after api_ingest has written the row; every other change is api_ingest's.
C3_TerminalChangedOnlyByTaskOrIngest ==
    [][ \A j \in Jobs :
            (rows[j].status \in Terminal /\ Seen(rows'[j]) # Seen(rows[j]))
                => /\ req' = req
                   /\ (exec' # exec) => (delivered[j] > 1 \/ ingested[j])
                   /\ (exec' = exec) => ingested'[j] ]_vars

\* A row completed by one execution and set to error by the redelivered one.
C3_Witness ==
    \E j \in Jobs :
        /\ delivered[j] = 2 /\ ~ingested[j]
        /\ rows[j].status = "error" /\ rows[j].lesson_data # NullLesson

\* ---- C4
\* C4 as stated: a row that process_lesson set to status error carries an
\* error message, and so does the polling response.
C4_ErrorCarriesMessage ==
    \A j \in Jobs :
        (/\ rows[j].status = "error"
         /\ \E s \in Slots : exec[s].job = j /\ exec[s].wrote = "error")
            => (rows[j].error # "null" /\ "error" \in DOMAIN get_lesson(j).body)

\* C4 as amended: a row in status error carries no error message at all (the
\* except clause writes the status only), and the polling response holds id,
\* status, ocr_text and lesson_data: no message and no stack trace.
C4_ErrorCarriesNoMessage ==
    \A j \in Jobs :
        rows[j].status = "error"
            => /\ rows[j].error = "null"
               /\ get_lesson(j).code = 200
               /\ DOMAIN get_lesson(j).body = {"id", "status", "lesson"}
               /\ DOMAIN get_lesson(j).body.lesson = {"ocr_text", "lesson_data"}

\* An execution failed, its except clause wrote error, and the row shows it.
C4_Witness ==
    \E s \in Slots :
        /\ Finished(s) /\ exec[s].exc # "none" /\ exec[s].wrote = "error"
        /\ rows[exec[s].job].status = "error"

\* ---- C5
\* C5 as stated: every job create_lesson answered 202 eventually has persisted
\* status completed or error.
C5_AcceptedReachesTerminal ==
    \A j \in Jobs : [](resp[j] # 202) \/ <>(rows[j].status \in Terminal)

\* C5 as amended: every job whose message create_lesson enqueued eventually has
\* an execution that finished, having persisted status completed or error
\* unless its last status write was not applied (the update of the except
\* clause raised, or the worker has no store). A job answered 202 without a
\* message is never run.
C5_EnqueuedReachesTerminal ==
    \A j \in Jobs :
        (enq[j] > 0) ~>
            (\E s \in Slots :
                /\ exec[s].job = j /\ Finished(s)
                /\ exec[s].wrote \in Terminal \/ exec[s].lost)

\* An enqueued job whose execution failed and wrote error.
C5_Witness ==
    \E s \in Slots :
        /\ Finished(s) /\ exec[s].wrote = "error" /\ enq[exec[s].job] = 1
        /\ resp[exec[s].job] = 202 /\ rows[exec[s].job].status = "error"

\* ---- C6
\* C6 as stated: for a job delivered at most once, the polling response has
\* status completed exactly when its lesson_data is set.
C6_CompletedIffLesson ==
    \A j \in Jobs :
        (rows[j].exists /\ cfg.webStore /\ delivered[j] <= 1)
            => (get_lesson(j).body.status = "completed"
                   <=> get_lesson(j).body.lesson.lesson_data # NullLesson)

\* C6 as amended: status completed implies lesson_data set, in every state;
\* for a job delivered at most once, lesson_data set implies status completed
\* unless api_ingest has rewritten the status (to ingested or error).
C6_CompletedImpliesLesson ==
    \A j \in Jobs :
        (rows[j].exists /\ cfg.webStore)
            => LET out == get_lesson(j).body
               IN /\ out.status = "completed" => out.lesson.lesson_data # NullLesson
                  /\ (delivered[j] <= 1 /\ out.lesson.lesson_data # NullLesson)
                        => \/ out.status = "completed"
                           \/ ingested[j] /\ out.status \in {"ingested", "error"}

\* A job delivered once whose poll shows completed with its lesson.
C6_Witness ==
    \E j \in Jobs :
        /\ delivered[j] = 1 /\ get_lesson(j).code = 200
        /\ get_lesson(j).body.status = "completed"
        /\ get_lesson(j).body.lesson.lesson_data.src = "model"

\* ---- C7
\* C7 as stated: an execution whose generation response cannot be parsed ends
\* with status error, never completed.
C7_UnparsableEndsError ==
    \A s \in Slots :
        (Finished(s) /\ exec[s].resp = "unparsable")
            => /\ exec[s].wrote # "completed"
               /\ ~exec[s].lost => exec[s].wrote = "error"

\* C7 as amended: an unparsable generation response does not fail the
\* execution: lesson_json becomes the fixed fallback lesson, the execution goes
\* on to the final save, and it ends completed when that save is applied; it
\* ends in the except clause only when the save raises.
C7_UnparsableGetsFallback ==
    \A s \in Slots :
        exec[s].resp = "unparsable"
            => /\ exec[s].lesson = force_image_urls(FallbackLesson)
               /\ exec[s].pc \in {"save", "handler", "done"}
               /\ exec[s].exc \in {"none", "store"}
               /\ (Finished(s) /\ exec[s].exc = "none" /\ ~exec[s].lost)
                     => exec[s].wrote = "completed"

\* An unparsable response whose fallback lesson was saved as completed.
C7_Witness ==
    \E s \in Slots :
        /\ Finished(s) /\ exec[s].resp = "unparsable" /\ exec[s].wrote = "completed"
        /\ rows[exec[s].job].lesson_data.src = "fallback"

\* ---- C8
\* C8: an execution whose extraction recovered no text (the download having
\* succeeded) never fails for that: it goes on to write ocr_text and, unless
\* that write raises, to the generation step; and when generation gave a
\* lesson and the final save was applied it ends completed.
C8_EmptyExtractionDegrades ==
    \A s \in Slots :
        exec[s].empty
            => /\ exec[s].nDl = 1
               /\ exec[s].text \in Placeholders
               /\ exec[s].exc \notin {"download", "format"}
               /\ (Finished(s) /\ exec[s].resp = "none") => exec[s].exc = "store"
               /\ (Finished(s) /\ exec[s].exc = "none" /\ ~exec[s].lost)
                     => (exec[s].resp # "none" /\ exec[s].wrote = "completed")

\* An empty extraction whose job was saved as completed, with the placeholder
\* as ocr_text.
C8_Witness ==
    \E s \in Slots :
        /\ exec[s].empty /\ Finished(s) /\ exec[s].wrote = "completed"
        /\ rows[exec[s].job].ocr_text \in Placeholders
        /\ rows[exec[s].job].status = "completed"

\* ---- C9
RECURSIVE SumOver(_, _)
SumOver(f, S) ==
    IF S = {} THEN 0
    ELSE LET x == CHOOSE y \in S : TRUE IN f[x] + SumOver(f, S \ {x})

\* C9: every delivered message starts one execution; an execution downloads
\* at most once and sends at most one generation request; messages come only
\* from create_lesson (one per job) and from the broker's redelivery, never
\* from the task; after a failure the execution is in its except clause or
\* finished, and has then attempted the error update exactly once.
C9_SingleAttempt ==
    /\ \A s \in Slots :
          /\ exec[s].nDl <= 1 /\ exec[s].nGen <= 1 /\ exec[s].nErr <= 1
          /\ exec[s].exc # "none" => exec[s].pc \in {"handler", "done"}
          /\ (Finished(s) /\ exec[s].exc # "none") => exec[s].nErr = 1
          /\ (Finished(s) /\ exec[s].exc = "none") => exec[s].nErr = 0
    /\ \A j \in Jobs : enq[j] <= 1
    /\ SumOver(queue, Jobs) + SumOver(delivered, Jobs) = SumOver(enq, Jobs) + redelivered
    /\ Cardinality({s \in Slots : exec[s].pc # "idle"}) = SumOver(delivered, Jobs)

\* An execution whose generation request failed: one download, one request,
\* one error update, finished.
C9_Witness ==
    \E s \in Slots :
        /\ Finished(s) /\ exec[s].exc = "generation"
        /\ exec[s].nDl = 1 /\ exec[s].nGen = 1 /\ exec[s].nErr = 1

\* ====================================================== ocr_file_to_text

\* Longest text and longest confidence report of a call.
MaxText == 3
MaxTokens == 2

\* A text is a sequence of characters; " " stands for whitespace.
Chars == {"a", " "}
Texts == UNION {[1..n -> Chars] : n \in 0..MaxText}

\* The values of confidence="NN" attributes, in percent.
ConfVals == {50, 84, 85, 90}
ConfLists == UNION {[1..n -> ConfVals] : n \in 0..MaxTokens}

\* OCR_MIN_CONF (default 0.85), in percent.
OCR_MIN_CONF == 85

\* The whitespace characters of the model.
Whitespace == {" ", "\n"}

RECURSIVE lstrip(_)
lstrip(t) == IF t # <<>> /\ Head(t) \in Whitespace THEN lstrip(Tail(t)) ELSE t
RECURSIVE rstrip(_)
rstrip(t) ==
    IF t # <<>> /\ t[Len(t)] \in Whitespace
    THEN rstrip(SubSeq(t, 1, Len(t) - 1)) ELSE t
\* str.strip()
strip(t) == rstrip(lstrip(t))

RECURSIVE SumSeq(_)
SumSeq(q) == IF q = <<>> THEN 0 ELSE Head(q) + SumSeq(Tail(q))

\* _avg_conf_from_xml, as the fraction sum/(100*n): the mean of the
\* confidence="NN" attributes the regex finds; without any, the mean of the
\* charParams confidences of the parsed document; without those, 1.0.
avg_conf_from_xml(xml) ==
    IF xml.attrs # <<>> THEN [sum |-> SumSeq(xml.attrs), n |-> Len(xml.attrs)]
    ELSE IF xml.chars # <<>> THEN [sum |-> SumSeq(xml.chars), n |-> Len(xml.chars)]
    ELSE [sum |-> 100, n |-> 1]

\* A gate that also rejects a mean equal to the threshold.
BelowOrAtMinConf(conf) == conf.sum <= OCR_MIN_CONF * conf.n
\* conf < OCR_MIN_CONF
BelowMinConf(conf) == conf.sum < OCR_MIN_CONF * conf.n

Returned(t) == [kind |-> "return", text |-> t, code |-> 0]
\* sys.exit(code): SystemExit, which the function re-raises.
Exited(c) == [kind |-> "exit", text |-> <<>>, code |-> c]

\* An exception that leaves the function; kind is its class.
Raised(e) == [kind |-> e, text |-> <<>>, code |-> 0]

\* An except clause that lets every exception through.
soft_fail_reraise(e) == Raised(e)
\* An except clause that lets the polling timeout through.
soft_fail_reraise_timeout(e) ==
    IF e = "TimeoutError" THEN Raised(e) ELSE Returned(<<>>)
\* except Exception as e: print the error, return "".
soft_fail(e) == Returned(<<>>)

\* ocr_file_to_text on one file. in.configured: ABBYY_APP_ID and
\* ABBYY_APP_PASSWORD are set; in.submit: the submission returned a task id
\* ("ok"), none ("no_task") or raised; in.poll: the status _poll_task returned,
\* or "timeout" / "raise" when it raised; in.txt, in.xml: the result URLs,
\* whether each is listed, whether fetching it raised, and what it holds.
ocr_file_to_text(in) ==
    IF ~in.configured THEN Returned(<<>>)
    ELSE IF in.submit = "raise" THEN soft_fail("RequestException")
    ELSE IF in.submit # "ok" THEN Returned(<<>>)
    ELSE IF in.poll = "timeout" THEN soft_fail("TimeoutError")
    ELSE IF in.poll = "raise" THEN soft_fail("RequestException")
    ELSE IF in.poll # "Completed" THEN Returned(<<>>)
    ELSE IF in.txt.listed /\ ~in.txt.fetched THEN soft_fail("RequestException")
    ELSE IF in.xml.listed /\ ~in.xml.fetched THEN soft_fail("RequestException")
    ELSE LET txt == IF in.txt.listed THEN in.txt.text ELSE <<>>
             conf == IF in.xml.listed THEN avg_conf_from_xml(in.xml)
                     ELSE [sum |-> 100, n |-> 1]
         IN IF BelowMinConf(conf) THEN Exited(3) ELSE Returned(strip(txt))

\* The kinds of request a call sends before it ends.
requests_sent(in) ==
    IF ~in.configured THEN {}
    ELSE IF in.submit # "ok" THEN {"submit"}
    ELSE IF in.poll # "Completed" THEN {"submit", "status"}
    ELSE {"submit", "status"}
         \cup (IF in.txt.listed THEN {"txt"} ELSE {})
         \cup (IF in.xml.listed /\ (in.txt.listed => in.txt.fetched)
               THEN {"xml"} ELSE {})

\* The result URLs a completed task may list.
TxtResults ==
    {[listed |-> FALSE, fetched |-> TRUE, text |-> <<>>],
     [listed |-> TRUE, fetched |-> FALSE, text |-> <<>>]}
    \cup {[listed |-> TRUE, fetched |-> TRUE, text |-> t] : t \in Texts}
XmlResults ==
    {[listed |-> FALSE, fetched |-> TRUE, attrs |-> <<>>, chars |-> <<>>],
     [listed |-> TRUE, fetched |-> FALSE, attrs |-> <<>>, chars |-> <<>>]}
    \cup {[listed |-> TRUE, fetched |-> TRUE, attrs |-> a, chars |-> c] :
            a \in ConfLists, c \in {<<>>, <<50>>, <<90>>}}

NoTxt == [listed |-> FALSE, fetched |-> TRUE, text |-> <<>>]
NoXml == [listed |-> FALSE, fetched |-> TRUE, attrs |-> <<>>, chars |-> <<>>]

\* The calls: not configured; a submission without task id; a poll that does
\* not end Completed; a completed task with its results.
OcrInputs ==
    {[configured |-> FALSE, submit |-> "ok", poll |-> "Completed", txt |-> NoTxt, xml |-> NoXml]}
    \cup {[configured |-> TRUE, submit |-> sb, poll |-> "Completed", txt |-> NoTxt, xml |-> NoXml] :
            sb \in {"no_task", "raise"}}
    \cup {[configured |-> TRUE, submit |-> "ok", poll |-> p, txt |-> NoTxt, xml |-> NoXml] :
            p \in {"ProcessingFailed", "NotEnoughCredits", "timeout", "raise"}}
    \cup {[configured |-> TRUE, submit |-> "ok", poll |-> "Completed", txt |-> t, xml |-> x] :
            t \in TxtResults, x \in XmlResults}

OcrInit ==
    /\ cfg = [webStore |-> TRUE, workerStore |-> TRUE, hasKey |-> TRUE,
              workerImported |-> TRUE]
    /\ PipelineInit
    /\ ocr \in {[pc |-> "call", in |-> i, out |-> Returned(<<>>), sent |-> {}] :
                i \in OcrInputs}
    /\ poll = NoOcr /\ pdf = NoOcr /\ chunker = NoOcr /\ norm = NoOcr
    /\ MoreIdle

\* The call runs to its end.
OcrCall ==
    /\ ocr.pc = "call"
    /\ ocr' = [ocr EXCEPT !.pc = "done", !.out = ocr_file_to_text(ocr.in),
                           !.sent = requests_sent(ocr.in)]
    /\ UNCHANGED <<more, pipeline, poll, pdf, chunker, norm>>

OcrNext == OcrCall

OcrSpec == OcrInit /\ [][OcrNext]_vars

\* ---- C10
\* A finished call on a completed task whose text and confidence report were
\* both fetched, the report holding confidence attributes.
GatedCall ==
    /\ ocr.pc = "done"
    /\ ocr.in.configured /\ ocr.in.submit = "ok" /\ ocr.in.poll = "Completed"
    /\ ocr.in.txt.listed /\ ocr.in.txt.fetched
    /\ ocr.in.xml.listed /\ ocr.in.xml.fetched /\ ocr.in.xml.attrs # <<>>
MeanAtLeastMin ==
    SumSeq(ocr.in.xml.attrs) >= OCR_MIN_CONF * Len(ocr.in.xml.attrs)

\* C10 as stated: the call returns the trimmed text when the mean confidence
\* is at or above the threshold, and returns the empty string when it is below.
C10_LowConfidenceReturnsEmpty ==
    GatedCall =>
        ocr.out = IF MeanAtLeastMin THEN Returned(strip(ocr.in.txt.text))
                  ELSE Returned(<<>>)

\* C10 as amended: the call returns the trimmed text when the mean confidence
\* is at or above the threshold; when it is below, the call does not return:
\* it ends the process with sys.exit(3) (SystemExit is re-raised to the caller).
C10_GateReturnsOrExits ==
    GatedCall =>
        ocr.out = IF MeanAtLeastMin THEN Returned(strip(ocr.in.txt.text))
                  ELSE Exited(3)

\* A call with mean confidence 0.50 that ended in sys.exit(3).
C10_Witness ==
    /\ GatedCall /\ ocr.in.xml.attrs = <<50>> /\ ocr.in.txt.text = <<"a", " ">>
    /\ ocr.out = Exited(3)

\* ---- C11
\* C11 as stated: on every path the call returns a string to its caller.
C11_AlwaysReturnsString ==
    ocr.pc = "done" => ocr.out.kind = "return"

\* C11 as amended: the call returns the empty string when the service is not
\* configured (and then sends no request), when the submission raises or gives
\* no task id, when polling raises or ends in a status other than Completed,
\* and when fetching a result raises. The one path that does not return is the
\* confidence gate: a completed task whose mean confidence is below
\* OCR_MIN_CONF ends in sys.exit(3).
C11_SoftFailsExceptGate ==
    ocr.pc = "done" =>
        LET in == ocr.in
            faulted == \/ ~in.configured
                       \/ in.submit # "ok"
                       \/ in.poll # "Completed"
                       \/ in.txt.listed /\ ~in.txt.fetched
                       \/ in.xml.listed /\ ~in.xml.fetched
        IN /\ faulted => ocr.out = Returned(<<>>)
           /\ ~in.configured => ocr.sent = {}
           /\ ocr.out.kind \in {"return", "exit"}
           /\ ocr.out.kind = "exit" =>
                /\ ~faulted /\ in.xml.listed
                /\ BelowMinConf(avg_conf_from_xml(in.xml))
                /\ ocr.out = Exited(3)

\* A call whose confidence report could not be fetched, after the text was:
\* it returned the empty string.
C11_Witness ==
    /\ ocr.pc = "done" /\ ocr.in.poll = "Completed"
    /\ ocr.in.txt.listed /\ ocr.in.txt.fetched /\ ocr.in.txt.text = <<"a">>
    /\ ocr.in.xml.listed /\ ~ocr.in.xml.fetched
    /\ ocr.out = Returned(<<>>)
    /\ ocr.sent = {"submit", "status", "txt", "xml"}

\* =========================================================== _poll_task

\* Time in microseconds, which holds every delay of the schedule exactly
\* (3, 3.6, 4.32, 5.184, 6.2208, 7.46496, 8.957952, 10, 10, ...); the floats
\* of the code differ from these by less than 1e-12 s, and no comparison of the
\* loop comes that close.
Second == 1000000
\* timeout=180
PollTimeout == 180 * Second
\* delay = 3.0
InitialDelay == 3 * Second
\* the cap of min(10.0, ...)
MaxDelay == 10 * Second

Min(a, b) == IF a <= b THEN a ELSE b

\* A backoff without the cap.
next_delay_uncapped(d) == (d * 12) \div 10
\* delay = min(10.0, delay * 1.2)
next_delay(d) == Min(MaxDelay, (d * 12) \div 10)

\* The statuses that end the polling, and statuses that do not.
TerminalStatuses == {"Completed", "ProcessingFailed", "NotEnoughCredits"}
PendingStatuses == {"Queued", "InProgress"}
\* What a status request can do: answer with a status, or raise (network
\* error, raise_for_status, a payload _as_json rejects).
PollAnswers == TerminalStatuses \cup PendingStatuses \cup {"raise"}

PollInit ==
    /\ cfg = [webStore |-> TRUE, workerStore |-> TRUE, hasKey |-> TRUE,
              workerImported |-> TRUE]
    /\ PipelineInit
    /\ poll = [pc |-> "loop", delay |-> InitialDelay, waited |-> 0, nreq |-> 0,
               last |-> "none", out |-> "none"]
    /\ ocr = NoOcr /\ pdf = NoOcr /\ chunker = NoOcr /\ norm = NoOcr
    /\ MoreIdle

\* One round of the while loop: the status request, then either the return
\* of a terminal status, or the exception of the request leaving the
\* function, or the sleep and the new delay.
poll_round(ans) ==
    /\ poll.pc = "loop"
    /\ poll.waited < PollTimeout
    /\ poll' =
         IF ans = "raise"
         THEN [poll EXCEPT !.pc = "done", !.nreq = @ + 1, !.out = "raise"]
         ELSE IF ans \in TerminalStatuses
         THEN [poll EXCEPT !.pc = "done", !.nreq = @ + 1, !.last = ans, !.out = ans]
         ELSE [poll EXCEPT !.nreq = @ + 1, !.last = ans,
                           !.waited = @ + poll.delay,
                           !.delay = next_delay(poll.delay)]
    /\ UNCHANGED <<more, pipeline, ocr, pdf, chunker, norm>>

\* The loop condition fails: raise TimeoutError("ABBYY polling timed out").
poll_timeout ==
    /\ poll.pc = "loop"
    /\ ~(poll.waited < PollTimeout)
    /\ poll' = [poll EXCEPT !.pc = "done", !.out = "timeout"]
    /\ UNCHANGED <<more, pipeline, ocr, pdf, chunker, norm>>

PollNext ==
    \/ \E ans \in PollAnswers : poll_round(ans)
    \/ poll_timeout

PollSpec == PollInit /\ [][PollNext]_vars

\* The function runs on: every request has a timeout of its own
\* (timeout=(15, 120)) and every sleep ends.
PollFairSpec == PollInit /\ [][PollNext]_vars /\ WF_vars(PollNext)

\* The call of ocr_file_to_text in which _poll_task ended with outcome p.
ocr_after_poll(p) ==
    ocr_file_to_text([configured |-> TRUE, submit |-> "ok", poll |-> p,
                      txt |-> NoTxt, xml |-> NoXml])

\* ---- C12
\* C12 as stated: when polling exceeds its wait budget, the outcome of the OCR
\* call differs from the soft result, the returned empty string.
C12_TimeoutIsHardFailure ==
    (poll.pc = "done" /\ poll.out = "timeout") =>
        ocr_after_poll(poll.out) # Returned(<<>>)

\* C12 as amended: when polling exceeds its wait budget _poll_task raises
\* TimeoutError, and ocr_file_to_text catches it: the OCR call returns the
\* empty string, the same result as for a task that ended ProcessingFailed.
C12_TimeoutIsSoftFailure ==
    (poll.pc = "done" /\ poll.out = "timeout") =>
        /\ poll.waited >= PollTimeout
        /\ poll.last \in PendingStatuses
        /\ ocr_after_poll(poll.out) = Returned(<<>>)
        /\ ocr_after_poll(poll.out) = ocr_after_poll("ProcessingFailed")

\* A polling that timed out after its last round.
C12_Witness ==
    /\ poll.pc = "done" /\ poll.out = "timeout"
    /\ poll.waited > PollTimeout /\ poll.last = "InProgress"

\* ---- C13
\* C13 as stated: the call ends by returning a terminal status or by raising
\* TimeoutError.
C13_ReturnsTerminalOrTimesOut ==
    poll.pc = "done" => poll.out \in TerminalStatuses \cup {"timeout"}

\* The delays and the requests of a call, in every state.
PollSchedule ==
    /\ poll.pc \in {"loop", "done"}
    /\ InitialDelay <= poll.delay /\ poll.delay <= MaxDelay
    \* 7 rounds reach the cap (38.747712 s slept), 15 more of 10 s each pass
    \* the budget
    /\ poll.nreq <= 22
    /\ poll.pc = "done" =>
         /\ poll.out \in TerminalStatuses \cup {"timeout", "raise"}
         /\ poll.out \notin PendingStatuses
         /\ poll.out = "timeout" => poll.waited >= PollTimeout
\* The delays and the requests of a call, in every step.
PollStep ==
    /\ poll'.delay >= poll.delay
    /\ poll'.nreq > poll.nreq => poll.waited < PollTimeout
    /\ poll'.waited > poll.waited =>
         /\ poll'.waited = poll.waited + poll.delay
         /\ poll'.delay = Min(MaxDelay, (12 * poll.delay) \div 10)

\* C13 as amended: _poll_task always terminates: its delays start at 3 s,
\* follow d(k+1) = min(10, 1.2*d(k)), never decrease and never exceed 10 s; it
\* sends a status request only while the accumulated sleep is below 180 s, so
\* at most 22 requests; it ends by returning a status in {Completed,
\* ProcessingFailed, NotEnoughCredits}, by raising TimeoutError, or by letting
\* the exception of a failed status request through; it never returns a
\* non-terminal status.
C13_PollTerminates ==
    /\ []PollSchedule
    /\ [][PollStep]_vars
    /\ <>(poll.pc = "done")

\* A call that made all 22 requests, slept 188.747712 s and raised
\* TimeoutError.
C13_Witness ==
    /\ poll.pc = "done" /\ poll.out = "timeout" /\ poll.nreq = 22
    /\ poll.delay = MaxDelay /\ poll.waited = 188747712

\* ========================================== extract_text_from_pdf_bytes

\* Most pages of a document.
MaxPages == 2

\* A page text is a sequence of runs, a run being n copies of one character:
\* "a" stands for a visible character, " " and "\n" are whitespace. Runs of a
\* text are non-empty and neighbours differ in their character.
Run(c, n) == [c |-> c, n |-> n]

RECURSIVE text_len(_)
\* len(t)
text_len(t) == IF t = <<>> THEN 0 ELSE Head(t).n + text_len(Tail(t))
RECURSIVE letters(_)
\* len(re.sub(r"\s+", "", t))
letters(t) ==
    IF t = <<>> THEN 0
    ELSE (IF Head(t).c \in Whitespace THEN 0 ELSE Head(t).n) + letters(Tail(t))
RECURSIVE text_lstrip(_)
text_lstrip(t) ==
    IF t # <<>> /\ Head(t).c \in Whitespace THEN text_lstrip(Tail(t)) ELSE t
RECURSIVE text_rstrip(_)
text_rstrip(t) ==
    IF t # <<>> /\ t[Len(t)].c \in Whitespace
    THEN text_rstrip(SubSeq(t, 1, Len(t) - 1)) ELSE t
\* t.strip()
text_strip(t) == text_rstrip(text_lstrip(t))

\* letters < 80
MinLetters == 80
\* len(raw.strip()) < 60
MinTextLen == 60

\* A test that asks for few letters and an image.
is_mostly_image_and(page) ==
    IF page.fault = "inspect" THEN TRUE
    ELSE letters(page.raw) < MinLetters /\ page.images >= 1
\* _is_mostly_image: tiny text or has images; TRUE when the page cannot be
\* inspected (get_images raises).
is_mostly_image(page) ==
    IF page.fault = "inspect" THEN TRUE
    ELSE letters(page.raw) < MinLetters \/ page.images >= 1

\* The condition of the if in the page loop.
routed_to_ocr(page) ==
    is_mostly_image(page) \/ text_len(text_strip(page.raw)) < MinTextLen

\* "\n\n"
ParagraphBreak == <<Run("\n", 2)>>

RECURSIVE join_all_parts(_)
\* A join that keeps the empty parts.
join_all_parts(parts) ==
    IF parts = <<>> THEN <<>>
    ELSE IF Len(parts) = 1 THEN parts[1]
    ELSE parts[1] \o ParagraphBreak \o join_all_parts(Tail(parts))
RECURSIVE join_parts(_)
\* "\n\n".join(p for p in parts if p)
join_parts(parts) ==
    IF parts = <<>> THEN <<>>
    ELSE IF parts[1] = <<>> THEN join_parts(Tail(parts))
    ELSE LET rest == join_parts(Tail(parts))
         IN IF rest = <<>> THEN parts[1] ELSE parts[1] \o ParagraphBreak \o rest

\* What get_text("text") gives for a page: nothing; 59 visible characters;
\* 79 of them; 80, padded with whitespace; 80 around a blank; 80 around two
\* blank lines; whitespace only.
RawTexts ==
    {<<>>,
     <<Run("a", 59)>>,
     <<Run("a", 79)>>,
     <<Run(" ", 1), Run("a", 80), Run("\n", 1)>>,
     <<Run("a", 40), Run(" ", 1), Run("a", 40)>>,
     <<Run("a", 50), Run("\n", 4), Run("a", 50)>>,
     <<Run("\n", 2)>>}
\* Pages: fault "inspect" is get_images raising inside _is_mostly_image,
\* fault "render" is get_pixmap raising.
Pages ==
    {[raw |-> r, images |-> n, fault |-> "none"] : r \in RawTexts, n \in {0, 1}}
    \cup {[raw |-> <<Run("a", 100)>>, images |-> 0, fault |-> f] :
            f \in {"inspect", "render"}}
    \cup {[raw |-> <<Run("a", 10)>>, images |-> 1, fault |-> "render"]}
Documents == UNION {[1..n -> Pages] : n \in 0..MaxPages}

\* What ocr_file_to_text can do for a rendered page: return a text (empty,
\* blank, or padded with whitespace) or end in sys.exit(3).
OcrOutcomes ==
    {Returned(<<>>), Returned(<<Run(" ", 1)>>), Returned(<<Run("a", 5)>>),
     Returned(<<Run("\n", 1), Run("a", 7), Run(" ", 2)>>), Exited(3)}

PdfInit ==
    /\ cfg = [webStore |-> TRUE, workerStore |-> TRUE, hasKey |-> TRUE,
              workerImported |-> TRUE]
    /\ PipelineInit
    /\ pdf \in {[pc |-> "open", doc |-> d, i |-> 1, parts |-> <<>>,
                  calls |-> [k \in 1..Len(d) |-> 0],
                  got |-> [k \in 1..Len(d) |-> Returned(<<>>)],
                  out |-> Returned(<<>>)] : d \in Documents}
    /\ ocr = NoOcr /\ poll = NoOcr /\ chunker = NoOcr /\ norm = NoOcr
    /\ MoreIdle

\* fitz.open(stream=pdf_bytes, filetype="pdf"), which raises on bytes that are
\* no PDF.
pdf_open(ok) ==
    /\ pdf.pc = "open"
    /\ pdf' = IF ok THEN [pdf EXCEPT !.pc = "page"]
              ELSE [pdf EXCEPT !.pc = "done", !.out = Raised("FileDataError")]
    /\ UNCHANGED <<more, pipeline, ocr, poll, chunker, norm>>

\* One round of the page loop, with o what the OCR call does if it is made.
pdf_page(o) ==
    /\ pdf.pc = "page"
    /\ pdf.i <= Len(pdf.doc)
    /\ LET page == pdf.doc[pdf.i]
       IN pdf' =
            IF routed_to_ocr(page)
            THEN IF page.fault = "render"
                 THEN [pdf EXCEPT !.pc = "done", !.out = Raised("RuntimeError")]
                 ELSE IF o.kind = "exit"
                 THEN [pdf EXCEPT !.pc = "done", !.out = o,
                                  !.calls[pdf.i] = @ + 1, !.got[pdf.i] = o]
                 ELSE [pdf EXCEPT !.i = @ + 1,
                                  !.calls[pdf.i] = @ + 1, !.got[pdf.i] = o,
                                  !.parts = Append(@, text_strip(o.text))]
            ELSE [pdf EXCEPT !.i = @ + 1,
                             !.parts = Append(@, text_strip(page.raw))]
    /\ UNCHANGED <<more, pipeline, ocr, poll, chunker, norm>>

\* return "\n\n".join(p for p in parts if p)
pdf_return ==
    /\ pdf.pc = "page"
    /\ pdf.i > Len(pdf.doc)
    /\ pdf' = [pdf EXCEPT !.pc = "done", !.out = Returned(join_parts(pdf.parts))]
    /\ UNCHANGED <<more, pipeline, ocr, poll, chunker, norm>>

PdfNext ==
    \/ \E ok \in BOOLEAN : pdf_open(ok)
    \/ \E o \in OcrOutcomes : pdf_page(o)
    \/ pdf_return

PdfSpec == PdfInit /\ [][PdfNext]_vars

\* ---- C14
\* The call has returned its text.
PdfReturned == pdf.pc = "done" /\ pdf.out.kind = "return"
\* The page is image-dominated, or its trimmed direct text is short.
NeedsOcr(page) ==
    \/ letters(page.raw) < 80
    \/ page.images >= 1
    \/ text_len(text_strip(page.raw)) < 60

Contribution(k) ==
    IF pdf.calls[k] = 1 THEN text_strip(pdf.got[k].text)
    ELSE text_strip(pdf.doc[k].raw)
\* The non-empty contributions of pages k..n, in page order, with one
\* paragraph break between neighbours.
RECURSIVE JoinedFrom(_, _)
JoinedFrom(k, n) ==
    IF k > n THEN <<>>
    ELSE LET rest == JoinedFrom(k + 1, n)
         IN IF Contribution(k) = <<>> THEN rest
            ELSE IF rest = <<>> THEN Contribution(k)
            ELSE Contribution(k) \o <<Run("\n", 2)>> \o rest

\* C15: the text the call returns is the join, in page order and with one
\* paragraph break between neighbours, of the non-empty trimmed contributions
\* of its pages, a page sent to OCR contributing the OCR output only; so the
\* text neither starts nor ends with whitespace, and is empty when every
\* contribution is.
C15_JoinOfContributions ==
    PdfReturned =>
        /\ pdf.out.text = JoinedFrom(1, Len(pdf.doc))
        /\ pdf.out.text # <<>> =>
              /\ pdf.out.text[1].c \notin Whitespace
              /\ pdf.out.text[Len(pdf.out.text)].c \notin Whitespace
        /\ (\A k \in 1..Len(pdf.doc) : Contribution(k) = <<>>) => pdf.out.text = <<>>

\* A returned call on two pages: the first, with 59 visible characters, went
\* to OCR, which returned the empty string; the second gave its text layer,
\* which is all the call returned.
C15_Witness ==
    /\ PdfReturned /\ Len(pdf.doc) = 2
    /\ pdf.doc[1].raw = <<Run("a", 59)>> /\ pdf.calls = <<1, 0>>
    /\ pdf.got[1] = Returned(<<>>)
    /\ pdf.doc[2].raw = <<Run("a", 50), Run("\n", 4), Run("a", 50)>>
    /\ pdf.out.text = pdf.doc[2].raw

\* =========================================================== chunk_text

\* Longest input text, and largest min_len and max_len.
MaxChunkText == 5
MaxChunkLen == 2

\* Input texts: a letter, a sentence end, a blank, a newline.
ChunkChars == {"a", ".", " ", "\n"}
ChunkTexts == UNION {[1..n -> ChunkChars] : n \in 0..MaxChunkText}
\* [\.\?\!\:]
SentenceEnds == {".", "?", "!", ":"}

RECURSIVE squeeze_newlines(_, _)
\* re.sub(r"\n{3,}", "\n\n", s): run is the number of newlines that end the
\* output so far.
squeeze_newlines(s, run) ==
    IF s = <<>> THEN <<>>
    ELSE IF Head(s) = "\n"
    THEN IF run >= 2 THEN squeeze_newlines(Tail(s), run)
         ELSE <<"\n">> \o squeeze_newlines(Tail(s), run + 1)
    ELSE <<Head(s)>> \o squeeze_newlines(Tail(s), 0)

RECURSIVE skip_whitespace(_, _)
\* The end of the \s+ match that starts at i.
skip_whitespace(s, i) ==
    IF i <= Len(s) /\ s[i] \in Whitespace THEN skip_whitespace(s, i + 1) ELSE i

RECURSIVE split_sentences(_, _, _)
\* re.split(r'(?<=[\.\?\!\:])\s+', s), from position i with cur the piece
\* read so far: a run of whitespace that follows a sentence end separates.
split_sentences(s, i, cur) ==
    IF i > Len(s) THEN <<cur>>
    ELSE IF s[i] \in Whitespace /\ i > 1 /\ s[i - 1] \in SentenceEnds
    THEN <<cur>> \o split_sentences(s, skip_whitespace(s, i), <<>>)
    ELSE split_sentences(s, i + 1, Append(cur, s[i]))

\* A test that lets a chunk grow one past max_len.
fits_one_more(cur, sent, max_len) == Len(cur) + Len(sent) <= max_len
\* len(cur) + len(sent) < max_len
fits(cur, sent, max_len) == Len(cur) + Len(sent) < max_len

\* A round that forgets the chunk it closes.
chunk_round_drop(st, sent, min_len, max_len) ==
    IF fits(st.cur, sent, max_len)
    THEN [st EXCEPT !.cur = strip(st.cur \o <<" ">> \o sent)]
    ELSE IF Len(st.cur) >= min_len
    THEN [st EXCEPT !.cur = sent]
    ELSE [st EXCEPT !.cur = strip(st.cur \o <<" ">> \o sent)]
\* A round that closes a chunk whenever the sentence does not fit.
chunk_round_flush_short(st, sent, min_len, max_len) ==
    IF fits(st.cur, sent, max_len)
    THEN [st EXCEPT !.cur = strip(st.cur \o <<" ">> \o sent)]
    ELSE [buf |-> Append(st.buf, st.cur), cur |-> sent]
\* One round of the loop over the sentences, st = [buf, cur].
chunk_round(st, sent, min_len, max_len) ==
    IF fits(st.cur, sent, max_len)
    THEN [st EXCEPT !.cur = strip(st.cur \o <<" ">> \o sent)]
    ELSE IF Len(st.cur) >= min_len
    THEN [buf |-> Append(st.buf, st.cur), cur |-> sent]
    ELSE [st EXCEPT !.cur = strip(st.cur \o <<" ">> \o sent)]

RECURSIVE chunk_loop(_, _, _, _)
chunk_loop(st, sents, min_len, max_len) ==
    IF sents = <<>> THEN st
    ELSE chunk_loop(chunk_round(st, Head(sents), min_len, max_len),
                    Tail(sents), min_len, max_len)

\* A return of buf as it is.
kept_chunks_raw(buf) == buf
\* [c.strip() for c in buf if c.strip()]
kept_chunks(buf) ==
    LET stripped == [k \in 1..Len(buf) |-> strip(buf[k])]
    IN SelectSeq(stripped, LAMBDA c : c # <<>>)

\* The sentences chunk_text works on.
sentences_of(s) == split_sentences(strip(squeeze_newlines(s, 0)), 1, <<>>)

chunk_text(s, min_len, max_len) ==
    LET st == chunk_loop([buf |-> <<>>, cur |-> <<>>], sentences_of(s),
                         min_len, max_len)
        buf == IF st.cur # <<>> THEN Append(st.buf, st.cur) ELSE st.buf
    IN kept_chunks(buf)

ChunkInit ==
    /\ cfg = [webStore |-> TRUE, workerStore |-> TRUE, hasKey |-> TRUE,
              workerImported |-> TRUE]
    /\ PipelineInit
    /\ chunker \in {[pc |-> "call", s |-> t, min_len |-> a, max_len |-> b,
                      out |-> <<>>] :
                        t \in ChunkTexts, a \in 0..MaxChunkLen, b \in 0..MaxChunkLen}
    /\ ocr = NoOcr /\ poll = NoOcr /\ pdf = NoOcr /\ norm = NoOcr
    /\ MoreIdle

ChunkCall ==
    /\ chunker.pc = "call"
    /\ chunker' = [chunker EXCEPT
                     !.pc = "done",
                     !.out = chunk_text(chunker.s, chunker.min_len, chunker.max_len)]
    /\ UNCHANGED <<more, pipeline, ocr, poll, pdf, norm>>

ChunkNext == ChunkCall

ChunkSpec == ChunkInit /\ [][ChunkNext]_vars

\* ---- C16
ChunkDone == chunker.pc = "done"

\* C16 as stated: with min_len <= max_len, every chunk but the first has
\* length at most max_len. Stated for positive lengths.
C16_OnlyFirstChunkExceeds ==
    (ChunkDone /\ 1 <= chunker.min_len /\ chunker.min_len <= chunker.max_len) =>
        \A k \in 2..Len(chunker.out) : Len(chunker.out[k]) <= chunker.max_len

\* The sentences of a chunk.
SentencesIn(c) == split_sentences(c, 1, <<>>)
\* The length of c without its last sentence and the blank before it.
LenBeforeLast(c) ==
    LET ss == SentencesIn(c) IN Len(c) - Len(ss[Len(ss)]) - 1

\* C16 as amended: with min_len <= max_len, a chunk is longer than max_len
\* only if it is a single sentence, or if what precedes its last sentence is
\* shorter than min_len; this can be any chunk, not only the first.
C16_LongChunkEndsInOversizeStep ==
    (ChunkDone /\ chunker.min_len <= chunker.max_len) =>
        \A k \in 1..Len(chunker.out) :
            LET c == chunker.out[k]
            IN Len(c) > chunker.max_len =>
                \/ Len(SentencesIn(c)) = 1
                \/ LenBeforeLast(c) < chunker.min_len

\* "a. aa" with min_len 1 and max_len 1: the chunks are "a." and "aa", and
\* the second, a single sentence, is longer than max_len.
C16_Witness ==
    /\ ChunkDone /\ chunker.min_len = 1 /\ chunker.max_len = 1
    /\ chunker.s = <<"a", ".", " ", "a", "a">>
    /\ chunker.out = << <<"a", ".">>, <<"a", "a">> >>

\* ---- C17
RECURSIVE JoinWithBlank(_)
\* " ".join(parts)
JoinWithBlank(parts) ==
    IF parts = <<>> THEN <<>>
    ELSE IF Len(parts) = 1 THEN parts[1]
    ELSE parts[1] \o <<" ">> \o JoinWithBlank(Tail(parts))
RECURSIVE AllSentences(_)
\* The sentences of the chunks, chunk after chunk.
AllSentences(chunks) ==
    IF chunks = <<>> THEN <<>>
    ELSE SentencesIn(chunks[1]) \o AllSentences(Tail(chunks))
\* A text without its whitespace.
Visible(t) == SelectSeq(t, LAMBDA ch : ch \notin Whitespace)

\* C17: the chunks joined with one blank are the sentences of the normalized
\* input joined with one blank; the sentences of the chunks, in order, are
\* the sentences of the input, each once; no visible character is lost.
C17_ChunksCoverSentences ==
    ChunkDone =>
        /\ JoinWithBlank(chunker.out) = JoinWithBlank(sentences_of(chunker.s))
        /\ IF strip(chunker.s) = <<>> THEN chunker.out = <<>>
           ELSE AllSentences(chunker.out) = sentences_of(chunker.s)
        /\ Visible(JoinWithBlank(chunker.out)) = Visible(chunker.s)

\* Three sentences, the first two separated by a newline, in two chunks.
C17_Witness ==
    /\ ChunkDone /\ chunker.min_len = 2 /\ chunker.max_len = 2
    /\ chunker.s = <<".", "\n", ".", " ", "a">>
    /\ chunker.out = << <<".", " ", ".">>, <<"a">> >>

\* ---- C18
\* C18: no chunk is empty, no chunk starts or ends with whitespace, and an
\* input that is empty or all whitespace gives the empty list.
C18_ChunksTrimmedNonEmpty ==
    ChunkDone =>
        /\ \A k \in 1..Len(chunker.out) :
              LET c == chunker.out[k]
              IN /\ c # <<>>
                 /\ c[1] \notin Whitespace /\ c[Len(c)] \notin Whitespace
        /\ Visible(chunker.s) = <<>> => chunker.out = <<>>

\* A call on blanks and newlines, which returned the empty list.
C18_Witness ==
    /\ ChunkDone /\ chunker.s = <<" ", "\n", "\n", "\n", " ">>
    /\ chunker.min_len = 0 /\ chunker.max_len = 0
    /\ chunker.out = <<>>

\* ========================================== _normalize_to_strict_schema

\* Most keys in which an input differs from one of the base objects.
MaxOverrides == 2

\* JSON values, all of one shape: t is the type, s the text of a string or
\* the numeral of a number, l the items of a list, o the members of an
\* object. Texts are in ASCII: "Lecon" stands for "Le\c{c}on", "Etape" for
\* "\'Etape", " * " for the bullet separator.
NoFields == [k \in {} |-> 0]
Null == [t |-> "null", s |-> "", l |-> <<>>, o |-> NoFields]
Str(x) == [t |-> "str", s |-> x, l |-> <<>>, o |-> NoFields]
Num(x) == [t |-> "num", s |-> x, l |-> <<>>, o |-> NoFields]
List(items) == [t |-> "list", s |-> "", l |-> items, o |-> NoFields]
Obj(f) == [t |-> "obj", s |-> "", l |-> <<>>, o |-> f]

\* The numbers of the model: 0, 5, 45.5 and an infinity (json.loads reads
\* Infinity), with int() of each.
Finite(n) == n # "inf"
IntOf(n) == IF n = "45.5" THEN "45" ELSE n

\* bool(v)
truthy(v) ==
    CASE v.t = "null" -> FALSE
      [] v.t = "str" -> v.s # ""
      [] v.t = "num" -> v.s # "0"
      [] v.t = "list" -> v.l # <<>>
      [] v.t = "obj" -> DOMAIN v.o # {}
\* d.get(k)
get(d, k) == IF k \in DOMAIN d.o THEN d.o[k] ELSE Null
\* a or b
Or(a, b) == IF truthy(a) THEN a ELSE b

\* A result: the exception raised ("" for none) and the value returned.
Ok(v) == [exc |-> "", val |-> v]
Fail(e) == [exc |-> e, val |-> Null]

RECURSIVE join(_, _)
\* sep.join(items), which raises TypeError on an item that is no string.
join(items, sep) ==
    IF items = <<>> THEN Ok(Str(""))
    ELSE IF Head(items).t # "str" THEN Fail("TypeError")
    ELSE IF Len(items) = 1 THEN Ok(Head(items))
    ELSE LET rest == join(Tail(items), sep)
         IN IF rest.exc # "" THEN rest
            ELSE Ok(Str(Head(items).s \o sep \o rest.val.s))

\* The first failure of a sequence of results, or Ok(Null).
RECURSIVE first_failure(_)
first_failure(rs) ==
    IF rs = <<>> THEN Ok(Null)
    ELSE IF Head(rs).exc # "" THEN Head(rs)
    ELSE first_failure(Tail(rs))

\* The title: obj.get("title") or obj.get("lesson_title") or "Lecon".
norm_title(obj) == Or(get(obj, "title"), Or(get(obj, "lesson_title"), Str("Lecon")))

\* The duration.
norm_duration(obj) ==
    LET d == get(obj, "duration")
        dm == get(obj, "duration_minutes")
    IN IF "duration" \in DOMAIN obj.o /\ d.t = "num"
       THEN IF Finite(d.s) THEN Ok(Str(IntOf(d.s) \o " min"))
            ELSE Fail("OverflowError")
       ELSE IF "duration" \in DOMAIN obj.o /\ d.t = "str" THEN Ok(d)
       ELSE IF "duration_minutes" \in DOMAIN obj.o
       THEN IF truthy(dm) /\ dm.t = "num" /\ Finite(dm.s)
            THEN Ok(Str(IntOf(dm.s) \o " min"))
            ELSE Ok(Str("30 min"))
       ELSE Ok(Str("30 min"))

\* A check that accepts any number of objectives.
norm_objectives_any(obj) ==
    LET o == Or(get(obj, "objectives"), List(<<>>))
    IN Ok(IF o.t # "list" THEN List(<<Str(o.s)>>) ELSE o)
\* The objectives, of which there must be two or three.
norm_objectives(obj) ==
    LET o == Or(get(obj, "objectives"), List(<<>>))
        lst == IF o.t # "list" THEN List(<<Str(o.s)>>) ELSE o
    IN IF Len(lst.l) < 2 \/ Len(lst.l) > 3 THEN Fail("ValueError") ELSE Ok(lst)

\* The materials, of which there must be one.
norm_materials(obj) ==
    LET m == Or(get(obj, "materials"), Or(get(obj, "material_list"), List(<<>>)))
        lst == IF m.t = "list" THEN m ELSE List(<<Str(m.s)>>)
    IN IF lst.l = <<>> THEN Fail("ValueError") ELSE Ok(lst)

\* The body shared by _norm_activity and the plan loop: name, minutes and
\* teacher_script of raw, with default the name of last resort.
norm_step(raw, default) ==
    LET name == Or(get(raw, "name"), Or(get(raw, "title"), Str(default)))
        m == Or(get(raw, "minutes"),
                Or(get(raw, "duration"), Or(get(raw, "duration_minutes"), Str(""))))
        steps == get(raw, "steps")
        early == Or(get(raw, "teacher_script"), get(raw, "script"))
        third == IF steps.t = "list" THEN join(steps.l, " * ")
                 ELSE Ok(get(raw, "description"))
    IN IF m.t = "num" /\ ~Finite(m.s) THEN Fail("OverflowError")
       ELSE IF ~truthy(early) /\ third.exc # "" THEN third
       ELSE Ok(Obj("name" :> name
                   @@ "minutes" :> (IF m.t = "num" THEN Str(IntOf(m.s)) ELSE m)
                   @@ "teacher_script" :>
                        (IF truthy(early) THEN early ELSE Or(third.val, Str("")))))

activity_keys ==
    <<"warm_up", "vocab_cards", "mini_story", "phonics_focus", "practice",
      "wrap_up", "homework">>
\* key.replace("_", " ").title()
ActivityTitle ==
    [warm_up |-> "Warm Up", vocab_cards |-> "Vocab Cards",
     mini_story |-> "Mini Story", phonics_focus |-> "Phonics Focus",
     practice |-> "Practice", wrap_up |-> "Wrap Up", homework |-> "Homework"]

\* _norm_activity(key)
norm_activity(obj, key) ==
    LET got == Or(get(obj, key), Obj(NoFields))
        raw == IF got.t # "obj" THEN Obj(NoFields) ELSE got
    IN norm_step(raw, ActivityTitle[key])

\* The plan: the object steps of a non-empty plan list, each normalized;
\* without such a list, the activities that have a script or minutes.
norm_plan(obj, acts) ==
    LET plan_in == Or(get(obj, "plan"),
                      Or(get(obj, "activities"), Or(get(obj, "sections"), List(<<>>))))
        dicts == IF plan_in.t = "list"
                 THEN SelectSeq(plan_in.l, LAMBDA st : st.t = "obj") ELSE <<>>
        outs == [k \in 1..Len(dicts) |-> norm_step(dicts[k], "Etape")]
        used == SelectSeq(activity_keys,
                          LAMBDA k : \/ truthy(get(acts[k].val, "teacher_script"))
                                     \/ truthy(get(acts[k].val, "minutes")))
    IN IF plan_in.t = "list" /\ plan_in.l # <<>>
       THEN IF first_failure(outs).exc # "" THEN first_failure(outs)
            ELSE Ok(List([k \in 1..Len(outs) |-> outs[k].val]))
       ELSE Ok(List([k \in 1..Len(used) |-> acts[used[k]].val]))

\* One entry of image_prompts at index i (from 0): nothing for an entry that
\* is no object or has no prompt.
norm_image_prompt(it, i) ==
    IF it.t # "obj" THEN Ok(Null)
    ELSE LET p == Or(get(it, "prompt"), get(it, "image_prompt"))
             bullets == get(it, "bullets")
             joined == join(SubSeq(bullets.l, 1, IF Len(bullets.l) < 3
                                                  THEN Len(bullets.l) ELSE 3), ", ")
             prompt == IF ~truthy(p) /\ bullets.t = "list"
                       THEN Str("Illustration pour: " \o joined.val.s) ELSE p
         IN IF ~truthy(p) /\ bullets.t = "list" /\ joined.exc # "" THEN joined
            ELSE IF truthy(prompt)
            THEN Ok(Obj("id" :> Or(get(it, "id"), Str("img" \o ToString(i + 1)))
                        @@ "prompt" :> prompt))
            ELSE Ok(Null)

norm_image_prompts(obj) ==
    LET ip == Or(get(obj, "image_prompts"),
                 Or(get(obj, "imagePrompts"), Or(get(obj, "slides"), List(<<>>))))
        outs == IF ip.t = "list"
                THEN [k \in 1..Len(ip.l) |-> norm_image_prompt(ip.l[k], k - 1)]
                ELSE <<>>
        kept == SelectSeq(outs, LAMBDA r : r.val.t = "obj")
    IN IF first_failure(outs).exc # "" THEN first_failure(outs)
       ELSE Ok(List([k \in 1..Len(kept) |-> kept[k].val]))

norm_first_tutor_messages(obj, title) ==
    LET f == Or(get(obj, "first_tutor_messages"),
                Or(get(obj, "firstTutorMessages"), List(<<>>)))
    IN IF f.t # "list" \/ ~truthy(f) THEN List(<<Str("Bonjour ! " \o title.s)>>)
       ELSE f

\* _normalize_to_strict_schema(obj): the first exception in the order of the
\* code, or the lesson.
normalize(obj) ==
    LET title == norm_title(obj)
        duration == norm_duration(obj)
        objectives == norm_objectives(obj)
        materials == norm_materials(obj)
        acts == [k \in {activity_keys[n] : n \in 1..Len(activity_keys)} |->
                    norm_activity(obj, k)]
        actsInOrder == [n \in 1..Len(activity_keys) |-> acts[activity_keys[n]]]
        plan == norm_plan(obj, acts)
        images == norm_image_prompts(obj)
        failure == first_failure(<<duration, objectives, materials>>
                                 \o actsInOrder \o <<plan, images>>)
    IN IF failure.exc # "" THEN failure
       ELSE Ok(Obj([k \in {"title", "duration", "objectives", "materials", "plan",
                           "image_prompts", "first_tutor_messages"}
                          \cup DOMAIN acts |->
                     CASE k = "title" -> title
                       [] k = "duration" -> duration.val
                       [] k = "objectives" -> objectives.val
                       [] k = "materials" -> materials.val
                       [] k = "plan" -> plan.val
                       [] k = "image_prompts" -> images.val
                       [] k = "first_tutor_messages" ->
                            norm_first_tutor_messages(obj, title)
                       [] OTHER -> acts[k].val]))

\* The member is to be left out.
Absent == [t |-> "absent", s |-> "", l |-> <<>>, o |-> NoFields]

\* Activities and plan steps an input may hold.
StepInputs ==
    {Obj(NoFields),
     Obj("teacher_script" :> Str("s")),
     Obj("teacher_script" :> Str("l1\nl2")),
     Obj("minutes" :> Num("5")),
     Obj("minutes" :> Num("45.5") @@ "name" :> Str("N")),
     Obj("steps" :> List(<<Str("a"), Str("b")>>)),
     Obj("steps" :> List(<<Str("a"), Num("5")>>)),
     Obj("script" :> Str("x") @@ "steps" :> List(<<Num("5")>>)),
     Obj("description" :> Str("d") @@ "title" :> Str("Tt")),
     Obj("duration" :> Num("inf")),
     Obj("minutes" :> Str("") @@ "duration_minutes" :> Str("10"))}

\* The values an input may give each key.
KeyValues ==
    [title |-> {Str(""), Str("T")},
     lesson_title |-> {Str("L")},
     duration |-> {Num("45.5"), Num("inf"), Str("1 h"), Str(""), Null},
     duration_minutes |-> {Num("5"), Num("0"), Str("abc")},
     objectives |-> {List(<<>>), List(<<Str("o1")>>), List(<<Str("o1"), Str("o2")>>),
                     List(<<Str("o1"), Str("o2"), Str("o3"), Str("o4")>>), Str("o")},
     materials |-> {List(<<>>), List(<<Str("m")>>), Str("chalk"), Num("5")},
     material_list |-> {List(<<Str("ml")>>)},
     warm_up |-> StepInputs \cup {Str("x")},
     homework |-> {Obj("minutes" :> Num("5")), Obj("name" :> Str("H"))},
     plan |-> {List(<<>>), List(<<Str("junk")>>), Str("text"),
               List(<<Obj("name" :> Str("P1") @@ "minutes" :> Num("5"))>>),
               List(<<Str("junk"), Obj("steps" :> List(<<Str("a"), Str("b")>>))>>),
               List(<<Obj("steps" :> List(<<Num("5")>>))>>)},
     activities |-> {List(<<Obj("description" :> Str("d"))>>)},
     image_prompts |-> {List(<<>>), Str("x"),
                        List(<<Obj("id" :> Str("cover") @@ "prompt" :> Str("p"))>>),
                        List(<<Str("junk"), Obj("image_prompt" :> Str("q"))>>),
                        List(<<Obj("bullets" :> List(<<Str("a"), Str("b"), Str("c"),
                                                        Str("d")>>))>>),
                        List(<<Obj("bullets" :> List(<<Num("5")>>))>>),
                        List(<<Obj("id" :> Str("a") @@ "prompt" :> Str("p")),
                               Obj("id" :> Str("a") @@ "prompt" :> Str("q"))>>),
                        List(<<Obj("id" :> Str("img2") @@ "prompt" :> Str("p")),
                               Obj("prompt" :> Str("q"))>>)},
     imagePrompts |-> {List(<<Obj("prompt" :> Str("r"))>>)},
     first_tutor_messages |-> {List(<<>>), List(<<Str("hi")>>), Str("hi")},
     firstTutorMessages |-> {List(<<Str("yo")>>)}]
InputKeys == DOMAIN KeyValues

\* obj with member k set to v, or without it.
with_member(obj, k, v) ==
    IF v = Absent THEN Obj([kk \in DOMAIN obj.o \ {k} |-> obj.o[kk]])
    ELSE Obj([kk \in DOMAIN obj.o \cup {k} |-> IF kk = k THEN v ELSE obj.o[kk]])

\* The base objects: the empty object, and the least one that is accepted.
BaseObjects ==
    {Obj(NoFields),
     Obj("objectives" :> List(<<Str("o1"), Str("o2")>>)
         @@ "materials" :> List(<<Str("m")>>))}

RECURSIVE Overridden(_)
\* The objects that differ from a base object in at most n members.
Overridden(n) ==
    IF n = 0 THEN BaseObjects
    ELSE LET prev == Overridden(n - 1)
         IN prev \cup UNION {{with_member(b, k, v) :
                                 b \in prev, v \in KeyValues[k] \cup {Absent}} :
                               k \in InputKeys}
NormInputs == Overridden(MaxOverrides)

NormInit ==
    /\ cfg = [webStore |-> TRUE, workerStore |-> TRUE, hasKey |-> TRUE,
              workerImported |-> TRUE]
    /\ PipelineInit
    /\ norm \in {[pc |-> "call", x |-> x, once |-> Ok(Null), twice |-> Ok(Null)] :
                    x \in NormInputs}
    /\ ocr = NoOcr /\ poll = NoOcr /\ pdf = NoOcr /\ chunker = NoOcr
    /\ MoreIdle

\* _normalize_to_strict_schema(x)
norm_call ==
    /\ norm.pc = "call"
    /\ LET r == normalize(norm.x)
       IN norm' = [norm EXCEPT !.once = r,
                               !.pc = IF r.exc = "" THEN "returned" ELSE "raised"]
    /\ UNCHANGED <<more, pipeline, ocr, poll, pdf, chunker>>

\* _normalize_to_strict_schema of what the first call returned.
norm_again ==
    /\ norm.pc = "returned"
    /\ norm' = [norm EXCEPT !.twice = normalize(norm.once.val), !.pc = "twice"]
    /\ UNCHANGED <<more, pipeline, ocr, poll, pdf, chunker>>

NormNext == norm_call \/ norm_again

NormSpec == NormInit /\ [][NormNext]_vars

\* ---- C19
\* C19: for every object the normalizer accepts, normalizing its output again
\* returns an equal lesson: the same plan, image_prompts, objectives,
\* duration, title and first_tutor_messages.
C19_NormalizeIdempotent ==
    norm.pc = "twice" =>
        /\ norm.twice.exc = ""
        /\ \A k \in {"plan", "image_prompts", "objectives", "duration", "title",
                      "first_tutor_messages"} :
              norm.twice.val.o[k] = norm.once.val.o[k]

\* ---- C20
NormCalled == norm.pc # "call"
CanonicalKeys ==
    {"title", "duration", "objectives", "plan", "image_prompts",
     "first_tutor_messages"}

\* C20 as stated, for the empty object: the call does not raise, and returns
\* a lesson with the six canonical keys, plan == [], objectives == [] and a
\* non-empty first_tutor_messages.
C20_EmptyObjectNormalizes ==
    (NormCalled /\ norm.x = Obj(NoFields)) =>
        /\ norm.once.exc = ""
        /\ CanonicalKeys \subseteq DOMAIN norm.once.val.o
        /\ norm.once.val.o["plan"] = List(<<>>)
        /\ norm.once.val.o["objectives"] = List(<<>>)
        /\ norm.once.val.o["first_tutor_messages"].l # <<>>

\* The number of objectives the input gives, a value that is no list counting
\* as one.
ObjectiveCount(x) ==
    LET o == get(x, "objectives")
    IN IF ~truthy(o) THEN 0 ELSE IF o.t = "list" THEN Len(o.l) ELSE 1
HasMaterials(x) == truthy(get(x, "materials")) \/ truthy(get(x, "material_list"))
Accepted(x) == ObjectiveCount(x) \in 2..3 /\ HasMaterials(x)

RECURSIVE Joinable(_)
\* No number in v is infinite, and no steps or bullets list in v holds
\* anything but strings.
Joinable(v) ==
    CASE v.t = "num" -> Finite(v.s)
      [] v.t = "list" -> \A n \in 1..Len(v.l) : Joinable(v.l[n])
      [] v.t = "obj" ->
            \A k \in DOMAIN v.o :
                /\ Joinable(v.o[k])
                /\ (k \in {"steps", "bullets"} /\ v.o[k].t = "list") =>
                        \A n \in 1..Len(v.o[k].l) : v.o[k].l[n].t = "str"
      [] OTHER -> TRUE

\* C20 as amended: the normalizer raises for the empty object, and for every
\* object without two or three objectives or without materials (ValueError);
\* apart from that it raises only on an infinite number (OverflowError) or on
\* a steps or bullets list holding a non-string (TypeError). What it returns
\* has the six canonical keys, materials and the seven activities, a list as
\* plan and a non-empty first_tutor_messages; for an object with nothing but
\* valid objectives and materials, the plan is [] and the greeting the
\* default.
C20_NormalizeRaisesOrReturnsLesson ==
    NormCalled =>
        LET x == norm.x
            r == norm.once
        IN /\ x = Obj(NoFields) => r = Fail("ValueError")
           /\ r.exc \in {"", "ValueError", "OverflowError", "TypeError"}
           /\ ~Accepted(x) => r.exc # ""
           /\ r.exc = "ValueError" => ~Accepted(x)
           /\ (Accepted(x) /\ Joinable(x)) => r.exc = ""
           /\ r.exc = "" =>
                /\ DOMAIN r.val.o =
                     CanonicalKeys \cup {"materials"}
                     \cup {activity_keys[n] : n \in 1..Len(activity_keys)}
                /\ Len(r.val.o["objectives"].l) \in 2..3
                /\ r.val.o["materials"].l # <<>>
                /\ r.val.o["plan"].t = "list"
                /\ r.val.o["first_tutor_messages"].t = "list"
                /\ r.val.o["first_tutor_messages"].l # <<>>
           /\ DOMAIN x.o = {"objectives", "materials"} /\ r.exc = "" =>
                /\ r.val.o["plan"] = List(<<>>)
                /\ r.val.o["image_prompts"] = List(<<>>)
                /\ r.val.o["first_tutor_messages"] = List(<<Str("Bonjour ! Lecon")>>)
                /\ r.val.o["title"] = Str("Lecon")
                /\ r.val.o["duration"] = Str("30 min")

\* The empty object, for which the call raised ValueError.
C20_Witness ==
    /\ norm.pc = "raised" /\ norm.x = Obj(NoFields)
    /\ norm.once = Fail("ValueError")

\* ---- C21
NormReturned == norm.pc \in {"returned", "twice"}

\* C21: in every lesson the normalizer returns, the ids of image_prompts are
\* pairwise distinct, every image_prompts entry has a non-empty prompt, and
\* no plan entry has a null or empty name.
C21_LessonEntriesWellFormed ==
    NormReturned =>
        LET ips == norm.once.val.o["image_prompts"].l
            plan == norm.once.val.o["plan"].l
        IN /\ \A i, j \in 1..Len(ips) : i # j => ips[i].o["id"] # ips[j].o["id"]
           /\ \A i \in 1..Len(ips) : truthy(ips[i].o["prompt"])
           /\ \A i \in 1..Len(plan) : truthy(plan[i].o["name"])

\* C21 without the distinct ids: every image_prompts entry has a prompt and
\* an id that are not empty, and every plan entry a name that is not empty.
C21_PromptsAndNamesNonEmpty ==
    NormReturned =>
        LET ips == norm.once.val.o["image_prompts"].l
            plan == norm.once.val.o["plan"].l
        IN /\ \A i \in 1..Len(ips) :
                truthy(ips[i].o["prompt"]) /\ truthy(ips[i].o["id"])
           /\ \A i \in 1..Len(plan) : truthy(plan[i].o["name"])

\* ======================================= parsing a generation response

\* Most tokens of a response.
MaxResponse == 5

\* A response is a sequence of tokens: a code fence (three backticks), the
\* braces, a member's key with its colon, a letter of stray text (or of the
\* language tag after a fence), a blank. The fence is written with quotes in
\* the place of its backticks. The JSON texts over these tokens are
\* the objects {}, {k:{}}, {k:{k:{}}}, ..., with blanks anywhere.
Fence == "'''"
ResponseTokens == {Fence, "{", "}", "k:", "x", " "}
Responses == UNION {[1..n -> ResponseTokens] : n \in 0..MaxResponse}

\* json.loads gave the object nested d deep.
Parsed(d) == [kind |-> "parsed", depth |-> d]
\* The response was given up: ValueError in mimi.py, 400 in main.py.
Rejected == [kind |-> "rejected", depth |-> 0]
\* process_lesson put its fallback lesson in the place of the response.
Fallback == [kind |-> "fallback", depth |-> 0]

RECURSIVE json_ws(_, _)
\* The first index from i on that holds no blank.
json_ws(t, i) == IF i <= Len(t) /\ t[i] = " " THEN json_ws(t, i + 1) ELSE i

RECURSIVE json_value(_, _)
\* The JSON value that starts at index i of t, blanks skipped: whether there
\* is one, the index after it, and how deep it nests.
json_value(t, i) ==
    LET bad == [ok |-> FALSE, next |-> i, depth |-> 0]
        a == json_ws(t, i)
        b == json_ws(t, a + 1)
    IN IF a > Len(t) \/ t[a] # "{" THEN bad
       ELSE IF b <= Len(t) /\ t[b] = "}" THEN [ok |-> TRUE, next |-> b + 1, depth |-> 0]
       ELSE IF b <= Len(t) /\ t[b] = "k:"
       THEN LET v == json_value(t, b + 1)
                c == json_ws(t, v.next)
            IN IF v.ok /\ c <= Len(t) /\ t[c] = "}"
               THEN [ok |-> TRUE, next |-> c + 1, depth |-> v.depth + 1]
               ELSE bad
       ELSE bad

\* json.loads(t): one value and nothing but blanks around it, or an exception.
json_loads(t) ==
    LET v == json_value(t, 1)
    IN IF v.ok /\ json_ws(t, v.next) > Len(t) THEN Parsed(v.depth) ELSE Rejected

RECURSIVE find(_, _, _)
\* t.find(c) from index i, counted from 1; 0 when c is not there.
find(t, c, i) == IF i > Len(t) THEN 0 ELSE IF t[i] = c THEN i ELSE find(t, c, i + 1)
RECURSIVE rfind(_, _, _)
\* t.rfind(c) from index i down.
rfind(t, c, i) == IF i < 1 THEN 0 ELSE IF t[i] = c THEN i ELSE rfind(t, c, i - 1)

RECURSIVE strip_chars(_, _)
\* t.strip(c) for a token c.
strip_chars(t, c) ==
    IF t = <<>> THEN t
    ELSE IF Head(t) = c THEN strip_chars(Tail(t), c)
    ELSE IF t[Len(t)] = c THEN strip_chars(SubSeq(t, 1, Len(t) - 1), c)
    ELSE t

\* An extraction that gives every response up.
extract_json_never(text) == Rejected
\* _extract_json_loose(text): json.loads of the span from the first "{" to
\* the last "}", ValueError when there is no span or it does not parse.
extract_json_loose(text) ==
    LET start == find(text, "{", 1)
        end == rfind(text, "}", Len(text))
    IN IF start # 0 /\ end # 0 /\ end > start
       THEN json_loads(SubSeq(text, start, end))
       ELSE Rejected

\* The parse inside _chat_json_strict: json.loads of the stripped content,
\* and the loose extraction when that raises.
chat_parse(content) ==
    LET text == strip_chars(content, " ")
    IN IF json_loads(text) # Rejected THEN json_loads(text)
       ELSE extract_json_loose(text)

\* The parse of build_lesson_v2: a response that starts with a fence loses
\* its backticks and, when it holds both braces, everything outside them;
\* then json.loads, and 400 when that raises.
build_lesson_v2_parse(content) ==
    LET text == strip_chars(content, " ")
        bare == strip_chars(text, Fence)
        start == find(bare, "{", 1)
        end == rfind(bare, "}", Len(bare))
    IN IF text # <<>> /\ Head(text) = Fence
       THEN IF start # 0 /\ end # 0
            THEN json_loads(SubSeq(bare, start, end))
            ELSE json_loads(bare)
       ELSE json_loads(text)

\* The parse of process_lesson: json.loads of the content; when that raises,
\* json.loads of what the greedy pattern \{.*\} matches; the fallback lesson
\* when nothing matches or the match does not parse.
process_lesson_parse(content) ==
    LET start == find(content, "{", 1)
        end == rfind(content, "}", Len(content))
        loose == IF start # 0 /\ end > start
                 THEN json_loads(SubSeq(content, start, end)) ELSE Rejected
    IN IF json_loads(content) # Rejected THEN json_loads(content)
       ELSE IF loose # Rejected THEN loose
       ELSE Fallback

ParseSites == {"_chat_json_strict", "build_lesson_v2", "process_lesson"}

ParseInit ==
    /\ cfg = [webStore |-> TRUE, workerStore |-> TRUE, hasKey |-> TRUE,
              workerImported |-> TRUE]
    /\ PipelineInit
    /\ CallsIdle
    /\ jsonp \in {[pc |-> "answered", text |-> t, site |-> "none", out |-> Rejected] :
                     t \in Responses}
    /\ vectors = NoOcr /\ ingestReq = NoOcr /\ built = NoOcr
    /\ chat = NoOcr /\ forced = NoOcr /\ chunkStore = NoOcr

\* The response reaches the parse of _chat_json_strict.
parse_in_chat ==
    /\ jsonp.pc = "answered"
    /\ jsonp' = [jsonp EXCEPT !.pc = "parsed", !.site = "_chat_json_strict",
                              !.out = chat_parse(jsonp.text)]
    /\ UNCHANGED <<pipeline, ocr, poll, pdf, chunker, norm, vectors, ingestReq,
                   built, chat, forced, chunkStore>>

\* The response reaches the parse of build_lesson_v2.
parse_in_build_lesson_v2 ==
    /\ jsonp.pc = "answered"
    /\ jsonp' = [jsonp EXCEPT !.pc = "parsed", !.site = "build_lesson_v2",
                              !.out = build_lesson_v2_parse(jsonp.text)]
    /\ UNCHANGED <<pipeline, ocr, poll, pdf, chunker, norm, vectors, ingestReq,
                   built, chat, forced, chunkStore>>

\* The response reaches the parse of process_lesson.
parse_in_process_lesson ==
    /\ jsonp.pc = "answered"
    /\ jsonp' = [jsonp EXCEPT !.pc = "parsed", !.site = "process_lesson",
                              !.out = process_lesson_parse(jsonp.text)]
    /\ UNCHANGED <<pipeline, ocr, poll, pdf, chunker, norm, vectors, ingestReq,
                   built, chat, forced, chunkStore>>

ParseNext == parse_in_chat \/ parse_in_build_lesson_v2 \/ parse_in_process_lesson

ParseSpec == ParseInit /\ [][ParseNext]_vars

\* ---- C22
\* The span from the first "{" to the last "}" of a response, <<>> when there
\* is none.
OutermostSpan(t) ==
    LET start == find(t, "{", 1)
        end == rfind(t, "}", Len(t))
    IN IF start # 0 /\ end > start THEN SubSeq(t, start, end) ELSE <<>>
GivenUp(out) == out.kind \in {"rejected", "fallback"}
\* What the claim asks of a site: a response that strict parsing refuses is
\* recovered to the object of its outermost span when that span is valid
\* JSON, and is given up only when it is not.
RecoversOutermost(text, out) ==
    /\ (json_loads(text) = Rejected /\ json_loads(OutermostSpan(text)) # Rejected)
            => out = json_loads(OutermostSpan(text))
    /\ GivenUp(out) =>
            json_loads(text) = Rejected /\ json_loads(OutermostSpan(text)) = Rejected

\* C22 as stated: at every place where a generation response is parsed, a
\* response that strict parsing refuses is recovered to the object of its
\* outermost "{".."}" span, and is rejected only if that span is not valid
\* JSON.
C22_EverySiteRecovers ==
    jsonp.pc = "parsed" => RecoversOutermost(jsonp.text, jsonp.out)

\* C22 as amended: _chat_json_strict and process_lesson recover as stated,
\* process_lesson giving a refused response up by storing its fallback
\* lesson; build_lesson_v2 extracts the span only from a response that starts
\* with a code fence, and parses every other response as it is, so that an
\* object after stray text is rejected.
C22_RecoversExceptUnfencedInV2 ==
    jsonp.pc = "parsed" =>
        LET text == strip_chars(jsonp.text, " ")
            fenced == text # <<>> /\ Head(text) = Fence
        IN /\ jsonp.site \in {"_chat_json_strict", "process_lesson"}
                => RecoversOutermost(jsonp.text, jsonp.out)
           /\ jsonp.site = "_chat_json_strict" => jsonp.out.kind # "fallback"
           /\ jsonp.site = "process_lesson" => jsonp.out.kind # "rejected"
           /\ (jsonp.site = "build_lesson_v2" /\ fenced)
                => jsonp.out = json_loads(OutermostSpan(jsonp.text))
           /\ (jsonp.site = "build_lesson_v2" /\ ~fenced)
                => jsonp.out = json_loads(jsonp.text)

\* A fenced object with a language tag, recovered by _chat_json_strict.
C22_Witness ==
    /\ jsonp.pc = "parsed" /\ jsonp.site = "_chat_json_strict"
    /\ jsonp.text = <<Fence, "x", "{", "}", Fence>>
    /\ jsonp.out = Parsed(0)

\* ================================================ ingest_pdf_to_vectors

\* The defaults of chunk_text.
DefaultMinLen == 500
DefaultMaxLen == 900

\* What extract_text_from_pdf_bytes may return: "", or the stripped texts of
\* pages with a blank line between two.
ExtractedTexts == {t \in ChunkTexts : strip(t) = t}
LessonIds == {"L1", "L2"}

IngestInit ==
    /\ cfg = [webStore |-> TRUE, workerStore |-> TRUE, hasKey |-> TRUE,
              workerImported |-> TRUE]
    /\ PipelineInit
    /\ CallsIdle
    /\ vectors = [pc |-> "call", lesson_id |-> "", text |-> <<>>, upserts |-> <<>>,
                  out |-> [text |-> <<>>, chunks |-> 0]]
    /\ jsonp = NoOcr /\ ingestReq = NoOcr /\ built = NoOcr
    /\ chat = NoOcr /\ forced = NoOcr /\ chunkStore = NoOcr

\* An ingestion that chunks the text and stores nothing.
ingest_without_upsert(lesson_id, text) ==
    [pc |-> "returned", lesson_id |-> lesson_id, text |-> text, upserts |-> <<>>,
     out |-> [text |-> text, chunks |-> Len(chunk_text(text, DefaultMinLen, DefaultMaxLen))]]
\* ingest_pdf_to_vectors(pdf_bytes, lesson_id) when the extraction returned
\* text: nothing stored for an empty text, else one upsert of its chunks.
ingest_extracted(lesson_id, text) ==
    IF text = <<>>
    THEN [pc |-> "returned", lesson_id |-> lesson_id, text |-> text, upserts |-> <<>>,
          out |-> [text |-> <<>>, chunks |-> 0]]
    ELSE LET chunks == chunk_text(text, DefaultMinLen, DefaultMaxLen)
         IN [pc |-> "returned", lesson_id |-> lesson_id, text |-> text,
             upserts |-> <<[lesson_id |-> lesson_id, chunks |-> chunks]>>,
             out |-> [text |-> text, chunks |-> Len(chunks)]]

\* One call of ingest_pdf_to_vectors. extracted: the extraction returned;
\* stored: upsert_lesson_chunks returned. An exception of either leaves the
\* call without a result.
ingest_pdf_to_vectors(lesson_id, extracted, text, stored) ==
    /\ vectors.pc = "call"
    /\ vectors' =
         IF ~extracted
         THEN [vectors EXCEPT !.pc = "raised", !.lesson_id = lesson_id]
         ELSE LET r == ingest_extracted(lesson_id, text)
              IN IF r.upserts # <<>> /\ ~stored
                 THEN [r EXCEPT !.pc = "raised", !.out = vectors.out]
                 ELSE r
    /\ UNCHANGED <<pipeline, ocr, poll, pdf, chunker, norm, jsonp, ingestReq,
                   built, chat, forced, chunkStore>>

IngestNext ==
    \E id \in LessonIds, extracted \in BOOLEAN, text \in ExtractedTexts,
       stored \in BOOLEAN :
        ingest_pdf_to_vectors(id, extracted, text, stored)

IngestSpec == IngestInit /\ [][IngestNext]_vars

\* ---- C23
\* C23: ingest_pdf_to_vectors calls upsert_lesson_chunks exactly once when
\* the extracted text is non-empty, and then returns that text and as chunk
\* count the number of chunks it passed to the store; when the extracted text
\* is empty it returns text "" and chunks 0 and writes nothing to the store.
C23_OneUpsertIffText ==
    /\ (vectors.pc = "returned" /\ vectors.text # <<>>) =>
            /\ Len(vectors.upserts) = 1
            /\ vectors.upserts[1].lesson_id = vectors.lesson_id
            /\ vectors.out.text = vectors.text
            /\ vectors.out.chunks = Len(vectors.upserts[1].chunks)
    /\ (vectors.pc = "returned" /\ vectors.text = <<>>) =>
            /\ vectors.upserts = <<>>
            /\ vectors.out = [text |-> <<>>, chunks |-> 0]
    /\ vectors.pc = "raised" => Len(vectors.upserts) <= 1

\* A text of two sentences, stored as the one chunk the defaults make of it.
C23_Witness ==
    /\ vectors.pc = "returned"
    /\ vectors.text = <<"a", ".", "\n", "a", ".">>
    /\ vectors.upserts = <<[lesson_id |-> vectors.lesson_id,
                            chunks |-> <<<<"a", ".", " ", "a", ".">>>>]>>
    /\ vectors.out.chunks = 1

\* ================================================ the api_ingest request

\* A column value: SQL NULL, or a text.
SqlNull == [null |-> TRUE, v |-> <<>>]
SqlText(t) == [null |-> FALSE, v |-> t]

\* Fields that call every ingestion a success.
ingest_fields_always_ingested(text) ==
    [ocr_text |-> IF text # <<>> THEN SqlText(text) ELSE SqlNull,
     status |-> "ingested"]
\* The fields of the update of api_ingest, from the text of the result.
ingest_fields(text) ==
    [ocr_text |-> IF text # <<>> THEN SqlText(text) ELSE SqlNull,
     status |-> IF text # <<>> THEN "ingested" ELSE "error"]

\* The lesson_id of a request: "" when the request gives none.
RequestLessonIds == LessonIds \cup {""}

IngestApiInit ==
    /\ cfg \in {[webStore |-> w, workerStore |-> TRUE, hasKey |-> TRUE,
                 workerImported |-> TRUE] : w \in BOOLEAN}
    /\ PipelineInit
    /\ CallsIdle
    /\ ingestReq = [pc |-> "request", has_file |-> FALSE, lesson_id |-> "",
                    text |-> <<>>, ingests |-> 0, updates |-> <<>>, code |-> 0,
                    ok |-> FALSE, chunks |-> 0]
    /\ jsonp = NoOcr /\ vectors = NoOcr /\ built = NoOcr
    /\ chat = NoOcr /\ forced = NoOcr /\ chunkStore = NoOcr

\* One request to /api/ingest. has_file, lesson_id: what the request holds;
\* extracted, text, stored: how ingest_pdf_to_vectors goes; updated: the
\* update of the lessons row returns. ingest_api.supabase is set when
\* cfg.webStore is. An exception ends the request with 500.
api_ingest_request(has_file, lesson_id, extracted, text, stored, updated) ==
    /\ ingestReq.pc = "request"
    /\ LET asked == [ingestReq EXCEPT !.pc = "answered", !.has_file = has_file,
                                      !.lesson_id = lesson_id]
           res == ingest_extracted(lesson_id, text)
           raised == ~extracted \/ (res.upserts # <<>> /\ ~stored)
           upd == [id |-> lesson_id, fields |-> ingest_fields(res.out.text)]
       IN ingestReq' =
            IF ~has_file \/ lesson_id = ""
            THEN [asked EXCEPT !.code = 400]
            ELSE IF raised
            THEN [asked EXCEPT !.code = 500, !.ingests = 1,
                               !.text = IF extracted THEN text ELSE <<>>]
            ELSE IF cfg.webStore
            THEN [asked EXCEPT !.ingests = 1, !.text = text,
                               !.updates = <<upd>>,
                               !.code = IF updated THEN 200 ELSE 500,
                               !.ok = updated /\ res.out.text # <<>>,
                               !.chunks = IF updated THEN res.out.chunks ELSE 0]
            ELSE [asked EXCEPT !.ingests = 1, !.text = text, !.code = 200,
                               !.ok = res.out.text # <<>>,
                               !.chunks = res.out.chunks]
    /\ UNCHANGED <<pipeline, ocr, poll, pdf, chunker, norm, jsonp, vectors,
                   built, chat, forced, chunkStore>>

IngestApiNext ==
    \E has_file \in BOOLEAN, lesson_id \in RequestLessonIds, extracted \in BOOLEAN,
       text \in ExtractedTexts, stored \in BOOLEAN, updated \in BOOLEAN :
        api_ingest_request(has_file, lesson_id, extracted, text, stored, updated)

IngestApiSpec == IngestApiInit /\ [][IngestApiNext]_vars

\* ---- C24
IngestAnswered == ingestReq.pc = "answered"
IngestAccepted == ingestReq.has_file /\ ingestReq.lesson_id # ""

DemoActivity(name, minutes, script) ==
    Obj("name" :> Str(name) @@ "minutes" :> Str(minutes)
        @@ "teacher_script" :> Str(script))
DemoImage(id, prompt) == Obj("id" :> Str(id) @@ "prompt" :> Str(prompt))
DemoObject ==
    Obj("title" :> Str("Demo - Les symboles de la France")
        @@ "duration" :> Str("30 min")
        @@ "objectives" :> List(<<Str("Reconnaitre quelques symboles"),
                                  Str("Dire 'C'est ...'")>>)
        @@ "materials" :> List(<<Str("Images imprimees"), Str("Crayons")>>)
        @@ "warm_up" :> DemoActivity("Echauffement - Devine l'image", "5",
                                     "Regarde l'image.")
        @@ "vocab_cards" :> DemoActivity("Cartes de vocabulaire", "8",
                                         "Associe la photo au mot.")
        @@ "mini_story" :> DemoActivity("Decouverte - Carte du monde", "7",
                                        "On parle francais dans plusieurs pays.")
        @@ "phonics_focus" :> DemoActivity("Sons - 'ou'", "4",
                                           "Ecoute et repete le son 'ou'.")
        @@ "practice" :> DemoActivity("Jeu de role - Guide & Touriste", "6",
                                      "Tu es le guide, je suis le touriste.")
        @@ "wrap_up" :> DemoActivity("Creatif - Dessin", "4",
                                     "Dessine ton symbole prefere.")
        @@ "homework" :> DemoActivity("A la maison", "0",
                                      "Montre un symbole francais a ta famille.")
        @@ "image_prompts" :>
              List(<<DemoImage("cover_scene", "Eiffel Tower"),
                     DemoImage("vocab_card_croissant", "croissant"),
                     DemoImage("story_frame", "world map"),
                     DemoImage("phonics_poster", "poster 'ou'"),
                     DemoImage("reward_sticker", "gold star")>>)
        @@ "first_tutor_messages" :> List(<<Str("Bonjour ! Pret(e) ?")>>))

\* The activities build_mimi_lesson previews, with the name of last resort.
preview_keys ==
    <<[key |-> "warm_up", fallback |-> "Warm-up"],
      [key |-> "vocab_cards", fallback |-> "Vocabulary"],
      [key |-> "mini_story", fallback |-> "Mini-story"],
      [key |-> "phonics_focus", fallback |-> "Phonics"],
      [key |-> "practice", fallback |-> "Practice"],
      [key |-> "wrap_up", fallback |-> "Wrap-up"]>>

\* script.split("\n")[0][:140] for the scripts of the model, of which one has
\* two lines and none a line of more than 140 characters.
first_line(script) == IF script.s = "l1\nl2" THEN Str("l1") ELSE script

\* The steps one activity adds to ui_steps.
preview_steps(lesson, p) ==
    LET got == Or(get(lesson, p.key), Obj(NoFields))
        name == Or(get(got, "name"), Str(p.fallback))
        script == Or(get(got, "teacher_script"), Str(""))
    IN IF truthy(name) \/ truthy(script)
       THEN <<Obj("step" :> name)>>
            \o (IF truthy(script) THEN <<Obj("prompt" :> first_line(script))>> ELSE <<>>)
       ELSE <<>>

RECURSIVE previews(_, _)
previews(lesson, ps) ==
    IF ps = <<>> THEN <<>>
    ELSE preview_steps(lesson, Head(ps)) \o previews(lesson, Tail(ps))

\* The two steps of a lesson without any preview.
DefaultUiSteps ==
    <<Obj("step" :> Str("Explorons : Nouvelle lecon")),
      Obj("prompt" :> Str("Repete : Bonjour Mimi !"))>>

\* The ui_steps of build_mimi_lesson.
ui_steps_of(lesson) ==
    IF previews(lesson, preview_keys) = <<>> THEN DefaultUiSteps
    ELSE previews(lesson, preview_keys)

\* What _chat_json_strict gives build_mimi_lesson: the normalized demo object
\* without a key or a client, else the normalized object of the response,
\* or the exception of the last attempt.
chat_result(demo, raw) == IF demo THEN normalize(DemoObject) ELSE normalize(raw)

BuildInit ==
    /\ cfg \in {[webStore |-> TRUE, workerStore |-> TRUE, hasKey |-> k,
                 workerImported |-> TRUE] : k \in BOOLEAN}
    /\ PipelineInit
    /\ CallsIdle
    /\ built \in {[pc |-> "call", raw |-> x, out |-> Ok(Null)] : x \in NormInputs}
    /\ jsonp = NoOcr /\ vectors = NoOcr /\ ingestReq = NoOcr
    /\ chat = NoOcr /\ forced = NoOcr /\ chunkStore = NoOcr

\* The lesson of the result r of _chat_json_strict: its materials as a
\* list, and its ui_steps; the exception of r when it raised.
mimi_lesson(r) ==
    IF r.exc # "" THEN r
    ELSE Ok(with_member(with_member(r.val, "materials",
                                    Or(get(r.val, "materials"), List(<<>>))),
                        "ui_steps", List(ui_steps_of(r.val))))

\* The call b after it returned or raised out.
call_ended(b, out) ==
    [b EXCEPT !.out = out, !.pc = IF out.exc # "" THEN "raised" ELSE "returned"]

\* build_mimi_lesson(): the lesson of _chat_json_strict with materials as a
\* list and with ui_steps. mimi's OPENAI_API_KEY and client are there when
\* cfg.hasKey is.
build_mimi_lesson ==
    /\ built.pc = "call"
    /\ built' = call_ended(built, mimi_lesson(chat_result(~cfg.hasKey, built.raw)))
    /\ UNCHANGED <<pipeline, ocr, poll, pdf, chunker, norm, jsonp, vectors,
                   ingestReq, chat, forced, chunkStore>>

BuildNext == build_mimi_lesson

BuildSpec == BuildInit /\ [][BuildNext]_vars

\* ---- C25
\* C25: the lesson build_mimi_lesson returns, in demo mode too, has a
\* ui_steps list with at least one entry of type "question".
C25_UiStepsHaveQuestion ==
    built.pc = "returned" =>
        LET ui == get(built.out.val, "ui_steps")
        IN /\ ui.t = "list"
           /\ \E i \in 1..Len(ui.l) : get(ui.l[i], "type") = Str("question")

\* What holds of the code: ui_steps is a non-empty list of entries that hold
\* a step or a prompt and nothing else, so none has a type.
C25_UiStepsArePreviews ==
    built.pc = "returned" =>
        LET ui == get(built.out.val, "ui_steps")
        IN /\ ui.t = "list" /\ ui.l # <<>>
           /\ \A i \in 1..Len(ui.l) : DOMAIN ui.l[i].o \in {{"step"}, {"prompt"}}

\* ---- C26
\* The step in which create_lesson answers the request for row j.
Answers(j) == resp[j] = 0 /\ resp'[j] # 0

\* C26: every row create_lesson inserted ends the request in one of two ways:
\* exactly one process_lesson message was enqueued for its id and the
\* response is 202, or the status of the row was set to "error" and the
\* response is 500.
C26_EnqueuedOrMarkedError ==
    [][\A j \in Jobs :
         Answers(j) =>
            \/ resp'[j] = 202 /\ enq'[j] = 1
            \/ resp'[j] = 500 /\ rows'[j].status = "error"]_vars

\* C26 as amended: the response is 202 with one message enqueued; or 202
\* with no message and the row as it was, when the task could not be
\* imported; or 500 with no message in the broker and the status set to
\* "error", unless that update raised, which leaves the row as it was.
C26_EnqueuedWarnedOrFailed ==
    [][\A j \in Jobs :
         Answers(j) =>
            \/ /\ resp'[j] = 202 /\ cfg.workerImported
               /\ enq'[j] = 1 /\ queue'[j] = queue[j] + 1 /\ rows'[j] = rows[j]
            \/ /\ resp'[j] = 202 /\ ~cfg.workerImported
               /\ enq'[j] = 0 /\ queue'[j] = 0 /\ rows'[j] = rows[j]
            \/ /\ resp'[j] = 500 /\ cfg.workerImported
               /\ enq'[j] = 0 /\ queue'[j] = 0
               /\ \/ rows'[j] = update(rows, j, [status |-> "error"])[j]
                  \/ rows'[j] = rows[j]]_vars

\* A request answered 500 after delay() raised: nothing enqueued, the row in
\* "error".
C26_Witness ==
    \E j \in Jobs :
        /\ resp[j] = 500 /\ enq[j] = 0 /\ queue[j] = 0 /\ delivered[j] = 0
        /\ rows[j].exists /\ rows[j].status = "error" /\ ~ingested[j]

\* ---- C27
\* C27: every chunk chunk_text returns, other than the last one, has at
\* least min_len characters: only the final chunk can be undersized.
C27_OnlyLastChunkUndersized ==
    ChunkDone =>
        \A k \in 1..(Len(chunker.out) - 1) : Len(chunker.out[k]) >= chunker.min_len

\* Two chunks, the first closed at min_len or more and the last one below it.
C27_Witness ==
    /\ ChunkDone
    /\ Len(chunker.out) = 2
    /\ chunker.min_len = 2 /\ chunker.max_len = 2
    /\ Len(chunker.out[1]) >= 2
    /\ Len(chunker.out[2]) < 2

\* ==================================================== _chat_json_strict

\* Largest OPENAI_RETRIES of a deployment.
MaxRetries == 2

\* The object a parsed response of the parse model stands for: {} nested d
\* deep under the key k.
RECURSIVE NestedObject(_)
NestedObject(d) == IF d = 0 THEN Obj(NoFields) ELSE Obj("k" :> NestedObject(d - 1))

\* What one call of the model may give: an exception of the client, a
\* response without choices, a content that is no JSON or a JSON without the
\* members of a lesson, or a content that is the JSON text of an object.
ChatAnswers ==
    {[kind |-> "raise", text |-> <<>>, raw |-> Null],
     [kind |-> "no_choices", text |-> <<>>, raw |-> Null]}
    \cup {[kind |-> "content", text |-> t, raw |-> Null] :
            t \in {<<>>, <<"x">>, <<"{", "}">>, <<Fence, "{", "k:", "}", Fence>>}}
    \cup {[kind |-> "object", text |-> <<>>, raw |-> x] :
            x \in {Obj("objectives" :> List(<<Str("o1"), Str("o2")>>)
                       @@ "materials" :> List(<<Str("m")>>)),
                   Obj("objectives" :> List(<<Str("o1")>>)),
                   Obj("objectives" :> List(<<Str("o1"), Str("o2")>>)
                       @@ "materials" :> List(<<Str("m")>>)
                       @@ "duration" :> Num("inf")),
                   DemoObject}}

\* The body of the try block for one answer: the lesson, or the exception.
attempt_result(answer) ==
    CASE answer.kind = "raise" -> Fail("APIError")
      [] answer.kind = "no_choices" -> Fail("ValueError")
      [] answer.kind = "content" ->
            IF chat_parse(answer.text) = Rejected THEN Fail("ValueError")
            ELSE normalize(NestedObject(chat_parse(answer.text).depth))
      [] answer.kind = "object" -> normalize(answer.raw)

\* A test that lets the last attempt sleep as well.
may_retry_always(attempt, retries) == attempt <= retries
\* attempt < OPENAI_RETRIES
may_retry(attempt, retries) == attempt < retries

RECURSIVE Pow2(_)
Pow2(n) == IF n = 0 THEN 1 ELSE 2 * Pow2(n - 1)
\* 0.7 * (2 ** attempt), in tenths of a second.
backoff(attempt) == 7 * Pow2(attempt)

ChatInit ==
    /\ cfg \in {[webStore |-> TRUE, workerStore |-> TRUE, hasKey |-> k,
                 workerImported |-> TRUE] : k \in BOOLEAN}
    /\ PipelineInit
    /\ CallsIdle
    /\ chat \in {[pc |-> "call", retries |-> r, attempt |-> 0, answers |-> <<>>,
                  sleeps |-> <<>>, out |-> Ok(Null), at |-> 0] :
                    r \in -1..MaxRetries}
    /\ jsonp = NoOcr /\ vectors = NoOcr /\ ingestReq = NoOcr
    /\ built = NoOcr /\ forced = NoOcr /\ chunkStore = NoOcr

\* Without a key or a client: the normalized demo object, and no call.
chat_demo ==
    /\ chat.pc = "call" /\ ~cfg.hasKey
    /\ chat' = [chat EXCEPT !.pc = "returned", !.out = normalize(DemoObject)]
    /\ UNCHANGED <<pipeline, ocr, poll, pdf, chunker, norm, jsonp, vectors,
                   ingestReq, built, forced, chunkStore>>

\* The loop over range(OPENAI_RETRIES + 1) is empty: RuntimeError.
chat_no_attempt ==
    /\ chat.pc = "call" /\ cfg.hasKey /\ chat.retries < 0
    /\ chat' = [chat EXCEPT !.pc = "raised", !.out = Fail("RuntimeError")]
    /\ UNCHANGED <<pipeline, ocr, poll, pdf, chunker, norm, jsonp, vectors,
                   ingestReq, built, forced, chunkStore>>

\* One round of the loop: the call, the parse, the normalization; after a
\* failure the sleep and the next round, or the exception re-raised. at is
\* the round whose exception the call ends with.
chat_attempt(answer) ==
    /\ chat.pc \in {"call", "loop"} /\ cfg.hasKey
    /\ chat.attempt <= chat.retries
    /\ LET r == attempt_result(answer)
           tried == [chat EXCEPT !.answers = Append(@, answer)]
       IN chat' =
            IF r.exc = ""
            THEN [tried EXCEPT !.pc = "returned", !.out = r]
            ELSE IF may_retry(chat.attempt, chat.retries)
            THEN IF chat.attempt + 1 <= chat.retries
                 THEN [tried EXCEPT !.pc = "loop", !.attempt = @ + 1,
                                    !.sleeps = Append(@, backoff(chat.attempt))]
                 ELSE [tried EXCEPT !.pc = "raised", !.out = Fail("RuntimeError"),
                                    !.sleeps = Append(@, backoff(chat.attempt))]
            ELSE [tried EXCEPT !.pc = "raised", !.out = r, !.at = chat.attempt]
    /\ UNCHANGED <<pipeline, ocr, poll, pdf, chunker, norm, jsonp, vectors,
                   ingestReq, built, forced, chunkStore>>

ChatNext ==
    \/ chat_demo
    \/ chat_no_attempt
    \/ \E answer \in ChatAnswers : chat_attempt(answer)

ChatSpec == ChatInit /\ [][ChatNext]_vars

\* ---- C28
ChatCalls == Len(chat.answers)
Failed(answer) == attempt_result(answer).exc # ""

\* C28: one invocation of _chat_json_strict calls the model at most
\* OPENAI_RETRIES + 1 times, returns on the first attempt whose response
\* parses and normalizes, sleeps 0.7 * 2^attempt between attempts only and
\* never after the last, and after the last failed attempt raises the
\* exception of that attempt; in demo mode it makes no call and returns the
\* normalized demo lesson.
C28_RetriesThenRaisesLast ==
    chat.pc # "idle" =>
        /\ ChatCalls <= chat.retries + 1 \/ (chat.retries < 0 /\ ChatCalls = 0)
        /\ \A i \in 1..(ChatCalls - 1) : Failed(chat.answers[i])
        /\ Len(chat.sleeps) = (IF ChatCalls = 0 THEN 0
                               ELSE IF chat.pc = "loop" THEN ChatCalls
                               ELSE ChatCalls - 1)
        /\ \A i \in 1..Len(chat.sleeps) : chat.sleeps[i] = 7 * (2 ^ (i - 1))
        /\ (chat.pc = "returned" /\ cfg.hasKey) =>
              /\ ChatCalls >= 1
              /\ ~Failed(chat.answers[ChatCalls])
              /\ chat.out = attempt_result(chat.answers[ChatCalls])
        /\ (chat.pc = "raised" /\ chat.retries >= 0) =>
              /\ ChatCalls = chat.retries + 1
              /\ Failed(chat.answers[ChatCalls])
              /\ chat.at = chat.retries
              /\ chat.out = attempt_result(chat.answers[ChatCalls])
        /\ chat.pc = "loop" => Failed(chat.answers[ChatCalls])
        /\ ~cfg.hasKey =>
              /\ ChatCalls = 0 /\ chat.sleeps = <<>>
              /\ chat.pc = "returned" => chat.out = normalize(DemoObject)
              /\ chat.pc = "returned" => chat.out.exc = ""

\* Three attempts with OPENAI_RETRIES = 2: an exception of the client, a
\* content that is no JSON, and an object with one objective; two sleeps, of
\* 0.7 s and 1.4 s, and the ValueError of the third attempt raised.
C28_Witness ==
    /\ chat.pc = "raised" /\ chat.retries = 2 /\ ChatCalls = 3
    /\ chat.answers[1].kind = "raise"
    /\ chat.answers[2].kind = "content"
    /\ chat.answers[3].kind = "object"
    /\ chat.sleeps = <<7, 14>>
    /\ chat.out = Fail("ValueError")

\* ==================================================== _force_image_urls

\* Most steps of the ui_steps of a lesson.
MaxUiSteps == 2

ImageCaption == Str("Regarde l'image et dis ce que tu vois.")

\* The steps a lesson may hold.
UiStepInputs ==
    {Str("junk"),
     Obj("type" :> Str("note") @@ "title" :> Str("n")),
     Obj("type" :> Str("question") @@ "images" :> List(<<>>)),
     Obj("type" :> Str("image")),
     Obj("type" :> Str("image") @@ "image_url" :> Str("old") @@ "caption" :> Str("c")),
     Obj("title" :> Str("g")
         @@ "images" :> List(<<Obj("url" :> Str("old") @@ "image_url" :> Str("old2")),
                               Obj("url" :> Str("second"))>>)),
     Obj("title" :> Str("s") @@ "images" :> List(<<Str("file.png")>>)),
     Obj("type" :> Str("image") @@ "images" :> List(<<Obj("alt" :> Str("a"))>>)),
     Obj("type" :> Str("speak") @@ "images" :> Str("none"))}

\* The lessons: no ui_steps, ui_steps that are null or no list, and the
\* lists of steps.
ForceLessons ==
    {with_member(Obj("plan" :> Obj("title" :> Str("Mini-lecon"))), "ui_steps", u) :
        u \in {Absent, Null, Str("steps"), Obj("a" :> Str("b"))}
              \cup {List(l) : l \in UNION {[1..n -> UiStepInputs] : n \in 0..MaxUiSteps}}}
ImageUrls == {"u1", "u2"}

\* An images list that keeps all its entries.
force_images_keep_all(imgs, url) ==
    [k \in 1..Len(imgs) |->
        with_member(with_member(IF imgs[k].t = "obj" THEN imgs[k] ELSE Obj(NoFields),
                                "url", Str(url)),
                    "image_url", Absent)]
\* The images of a step after the loop: the first entry alone, an empty
\* object in its place when it is none, with the url and without image_url.
force_images(imgs, url) ==
    <<with_member(with_member(IF imgs[1].t = "obj" THEN imgs[1] ELSE Obj(NoFields),
                              "url", Str(url)),
                  "image_url", Absent)>>

\* The step counts as showing an image.
step_has_image(step) ==
    /\ step.t = "obj"
    /\ \/ get(step, "type") = Str("image")
       \/ get(step, "images").t = "list" /\ get(step, "images").l # <<>>

\* One round of the loop over ui_steps.
force_step(step, url) ==
    IF step.t # "obj" THEN step
    ELSE LET typed == IF get(step, "type") = Str("image")
                      THEN with_member(
                             with_member(step, "image_url", Str(url)), "caption",
                             IF "caption" \in DOMAIN step.o THEN step.o["caption"]
                             ELSE ImageCaption)
                      ELSE step
             imgs == get(typed, "images")
         IN IF imgs.t = "list" /\ imgs.l # <<>>
            THEN with_member(typed, "images", List(force_images(imgs.l, url)))
            ELSE typed

\* The step inserted at the top.
InjectedStep(url) ==
    Obj("type" :> Str("image") @@ "image_url" :> Str(url) @@ "caption" :> ImageCaption)

\* _force_image_urls(lesson_json, url). Iterating ui_steps that are an
\* object or a string finds no step to change, and insert() then raises
\* AttributeError.
_force_image_urls(lesson_json, url) ==
    LET ui == Or(get(lesson_json, "ui_steps"), List(<<>>))
        steps == [k \in 1..Len(ui.l) |-> force_step(ui.l[k], url)]
        has_image == \E k \in 1..Len(ui.l) : step_has_image(ui.l[k])
    IN IF ui.t # "list" THEN Fail("AttributeError")
       ELSE Ok(with_member(lesson_json, "ui_steps",
                           List(IF has_image THEN steps
                                ELSE <<InjectedStep(url)>> \o steps)))

ForceInit ==
    /\ cfg = [webStore |-> TRUE, workerStore |-> TRUE, hasKey |-> TRUE,
              workerImported |-> TRUE]
    /\ PipelineInit
    /\ CallsIdle
    /\ forced \in {[pc |-> "call", lesson |-> l, url |-> u, once |-> Ok(Null),
                    twice |-> Ok(Null)] : l \in ForceLessons, u \in ImageUrls}
    /\ jsonp = NoOcr /\ vectors = NoOcr /\ ingestReq = NoOcr
    /\ built = NoOcr /\ chat = NoOcr /\ chunkStore = NoOcr

\* _force_image_urls(lesson_json, url), as process_lesson calls it.
force_call ==
    /\ forced.pc = "call"
    /\ LET r == _force_image_urls(forced.lesson, forced.url)
       IN forced' = [forced EXCEPT !.once = r,
                                   !.pc = IF r.exc = "" THEN "returned" ELSE "raised"]
    /\ UNCHANGED <<pipeline, ocr, poll, pdf, chunker, norm, jsonp, vectors,
                   ingestReq, built, chat, chunkStore>>

\* _force_image_urls of the result, with the same url.
force_again ==
    /\ forced.pc = "returned"
    /\ forced' = [forced EXCEPT !.twice = _force_image_urls(forced.once.val, forced.url),
                                !.pc = "twice"]
    /\ UNCHANGED <<pipeline, ocr, poll, pdf, chunker, norm, jsonp, vectors,
                   ingestReq, built, chat, chunkStore>>

ForceNext == force_call \/ force_again

ForceSpec == ForceInit /\ [][ForceNext]_vars

\* ---- C29
ForceReturned == forced.pc \in {"returned", "twice"}
\* The steps before and after the call.
StepsBefore ==
    LET ui == get(forced.lesson, "ui_steps")
    IN IF ui.t = "list" THEN ui.l ELSE <<>>
StepsAfter == get(forced.once.val, "ui_steps").l
IsImageStep(st) == st.t = "obj" /\ get(st, "type") = Str("image")
HasImages(st) ==
    st.t = "obj" /\ get(st, "images").t = "list" /\ get(st, "images").l # <<>>
RefersTo(st, url) ==
    \/ IsImageStep(st) /\ get(st, "image_url") = Str(url)
    \/ HasImages(st) /\ get(get(st, "images").l[1], "url") = Str(url)
\* b is the step a with nothing changed but its image members.
SameStepBut(a, b) ==
    /\ a.t = b.t
    /\ a.t # "obj" => a = b
    /\ a.t = "obj" =>
          /\ DOMAIN a.o \subseteq DOMAIN b.o
          /\ DOMAIN b.o \ DOMAIN a.o \subseteq {"image_url", "caption"}
          /\ \A k \in DOMAIN a.o \ {"image_url", "images"} : b.o[k] = a.o[k]

\* C29: after _force_image_urls(lesson, url) every object step of type
\* "image" has image_url == url; every object step with a non-empty images
\* list has exactly one image, whose url is url; at least one step refers to
\* url, an image step being inserted at index 0 only when no step showed an
\* image; the original steps keep their order; and a second call with the
\* same url changes nothing.
C29_ForcesUrlOnce ==
    ForceReturned =>
        LET before == StepsBefore
            after == StepsAfter
            off == Len(after) - Len(before)
        IN /\ \A i \in 1..Len(after) :
                IsImageStep(after[i]) => get(after[i], "image_url") = Str(forced.url)
           /\ \A i \in 1..Len(after) :
                HasImages(after[i]) =>
                    /\ Len(get(after[i], "images").l) = 1
                    /\ get(get(after[i], "images").l[1], "url") = Str(forced.url)
           /\ \E i \in 1..Len(after) : RefersTo(after[i], forced.url)
           /\ off = (IF \E i \in 1..Len(before) :
                            IsImageStep(before[i]) \/ HasImages(before[i])
                     THEN 0 ELSE 1)
           /\ off = 1 => after[1] = InjectedStep(forced.url)
           /\ \A i \in 1..Len(before) : SameStepBut(before[i], after[i + off])
           /\ \A k \in DOMAIN forced.lesson.o \ {"ui_steps"} :
                forced.once.val.o[k] = forced.lesson.o[k]
           /\ forced.pc = "twice" => forced.twice = forced.once

\* A note and a gallery of two images: the gallery keeps its first image
\* with the url, no step is inserted, and the second call changes nothing.
C29_Witness ==
    /\ forced.pc = "twice" /\ forced.url = "u1"
    /\ StepsBefore =
         <<Obj("type" :> Str("note") @@ "title" :> Str("n")),
           Obj("title" :> Str("g")
               @@ "images" :> List(<<Obj("url" :> Str("old") @@ "image_url" :> Str("old2")),
                                     Obj("url" :> Str("second"))>>))>>
    /\ StepsAfter =
         <<Obj("type" :> Str("note") @@ "title" :> Str("n")),
           Obj("title" :> Str("g") @@ "images" :> List(<<Obj("url" :> Str("u1"))>>))>>
    /\ forced.twice = forced.once

\* ================================================= upsert_lesson_chunks

\* Most chunks of one call.
MaxStored == 2

ChunkContents == {"a", "b"}
StoredChunks == UNION {[1..n -> ChunkContents] : n \in 0..MaxStored}

\* The row of lesson_chunks for the chunk at position i of enumerate().
chunk_row(lesson_id, i, chunk) ==
    [lesson_id |-> lesson_id, chunk_index |-> i, content |-> chunk]

\* DELETE FROM lesson_chunks WHERE lesson_id = ?
delete_chunks(table, lesson_id) == {r \in table : r.lesson_id # lesson_id}

\* The INSERT statements from position i on, in the open transaction. The
\* statement numbered fail_at raises (the DELETE is statement 0, the INSERT
\* of chunks[k] statement k), and so does an INSERT whose primary key
\* (lesson_id, chunk_index) is taken.
RECURSIVE insert_chunks(_, _, _, _, _)
insert_chunks(table, lesson_id, chunks, i, fail_at) ==
    IF i >= Len(chunks) THEN [rows |-> table, exc |-> ""]
    ELSE IF fail_at = i + 1 THEN [rows |-> table, exc |-> "OperationalError"]
    ELSE IF \E r \in table : r.lesson_id = lesson_id /\ r.chunk_index = i
         THEN [rows |-> table, exc |-> "IntegrityError"]
    ELSE insert_chunks(table \cup {chunk_row(lesson_id, i, chunks[i + 1])},
                       lesson_id, chunks, i + 1, fail_at)

\* The statements of the try block up to commit(), on the rows the
\* connection sees; commit() is statement Len(chunks) + 1.
upsert_statements(table, lesson_id, chunks, fail_at) ==
    IF fail_at = 0 THEN [rows |-> table, exc |-> "OperationalError"]
    ELSE LET ins == insert_chunks(delete_chunks(table, lesson_id), lesson_id,
                                  chunks, 0, fail_at)
         IN IF ins.exc = "" /\ fail_at = Len(chunks) + 1
            THEN [rows |-> ins.rows, exc |-> "OperationalError"]
            ELSE ins

\* A close() that keeps what the transaction wrote.
close_keeps_pending(stored, pending) == pending.rows
\* conn.close() in the finally block: the rows of the database are those of
\* the transaction when commit() returned; a transaction left open is rolled
\* back.
close(stored, pending) == IF pending.exc = "" THEN pending.rows ELSE stored

NoCall == [lesson_id |-> "", chunks |-> <<>>, fail_at |-> 0, exc |-> ""]

\* lesson_chunks is empty; committed records, for each lesson id, the chunks of
\* the last call whose commit() returned.
StoreInit ==
    /\ cfg = [webStore |-> TRUE, workerStore |-> TRUE, hasKey |-> TRUE,
              workerImported |-> TRUE]
    /\ PipelineInit
    /\ CallsIdle
    /\ chunkStore = [rows |-> {}, committed |-> [l \in LessonIds |-> <<>>],
                     call |-> NoCall]
    /\ jsonp = NoOcr /\ vectors = NoOcr /\ ingestReq = NoOcr
    /\ built = NoOcr /\ chat = NoOcr /\ forced = NoOcr

\* upsert_lesson_chunks(lesson_id, chunks); the exception is printed, not
\* raised.
upsert_lesson_chunks(lesson_id, chunks, fail_at) ==
    /\ LET pending == upsert_statements(chunkStore.rows, lesson_id, chunks, fail_at)
       IN chunkStore' =
            [rows |-> close(chunkStore.rows, pending),
             committed |-> IF pending.exc = ""
                           THEN [chunkStore.committed EXCEPT ![lesson_id] = chunks]
                           ELSE chunkStore.committed,
             call |-> [lesson_id |-> lesson_id, chunks |-> chunks,
                       fail_at |-> fail_at, exc |-> pending.exc]]
    /\ UNCHANGED <<pipeline, ocr, poll, pdf, chunker, norm, jsonp, vectors,
                   ingestReq, built, chat, forced>>

StoreNext ==
    \E lesson_id \in LessonIds, chunks \in StoredChunks :
        \E fail_at \in 0..(Len(chunks) + 2) :
            upsert_lesson_chunks(lesson_id, chunks, fail_at)

StoreSpec == StoreInit /\ [][StoreNext]_vars

\* ---- C30
\* The rows stored for a lesson id, and the rows a list of chunks makes.
RowsOf(table, lesson_id) == {r \in table : r.lesson_id = lesson_id}
RowsFor(lesson_id, chunks) ==
    {chunk_row(lesson_id, i - 1, chunks[i]) : i \in 1..Len(chunks)}

\* C30: after any sequence of upsert_lesson_chunks calls the rows of a
\* lesson id are exactly the chunks of the last call that committed for that
\* id, with chunk_index 0..n-1 in list order; a call leaves the rows of
\* other lesson ids unchanged; and a call that fails part-way leaves the
\* stored rows of its lesson as they were.
C30_RowsAreLastCommitted ==
    /\ [](\A l \in LessonIds :
            RowsOf(chunkStore.rows, l) = RowsFor(l, chunkStore.committed[l]))
    /\ [][/\ \A l \in LessonIds \ {chunkStore'.call.lesson_id} :
                RowsOf(chunkStore'.rows, l) = RowsOf(chunkStore.rows, l)
          /\ chunkStore'.call.exc # "" => chunkStore'.rows = chunkStore.rows
          /\ chunkStore'.call.exc = "" =>
                RowsOf(chunkStore'.rows, chunkStore'.call.lesson_id)
                    = RowsFor(chunkStore'.call.lesson_id, chunkStore'.call.chunks)]_vars

\* L1 holds two committed chunks, L2 one, and the last call, for L1 with
\* other chunks, failed at its second INSERT.
C30_Witness ==
    /\ chunkStore.call.lesson_id = "L1"
    /\ chunkStore.call.chunks = <<"b", "b">>
    /\ chunkStore.call.fail_at = 2
    /\ chunkStore.call.exc = "OperationalError"
    /\ chunkStore.rows = {chunk_row("L1", 0, "a"), chunk_row("L1", 1, "b"),
                          chunk_row("L2", 0, "a")}

====
